---- MODULE Spec2Model ----
(***************************************************************************)
(* Model of the task-manager services: the login service (register, login, *)
(* token_required), and the team, task and note services, which share one  *)
(* relational store (database/models.py).                                  *)
(*                                                                         *)
(* A handler is an operator from the store and the request to the HTTP     *)
(* response and the store it leaves behind.  An action draws a request,    *)
(* applies the handler and records the response in `last`.                 *)
(***************************************************************************)
EXTENDS Bags, FiniteSets, Integers, Sequences, TLC

VARIABLES
    db,        \* the relational store: one field per table of models.py
    tokens,    \* tokens issued by login so far (held by clients, not stored)
    now,       \* the clock read by datetime.utcnow() and by jwt.decode, in hours
    inflight,  \* register requests that passed their check and have not committed
    registered, \* history: the (username, password) pairs whose users exist
    last       \* the last request served and its response

vars == <<db, tokens, now, inflight, registered, last>>

(***************************************************************************)
(* Bounds of the model.                                                    *)
(***************************************************************************)
MaxTime == 36          \* the clock stops here
MaxTokens == 1         \* tokens issued in one behaviour
MaxInflight == 2       \* register requests in flight at once
MaxUsers == 3          \* values drawn from the sequence of users.id
MaxTasks == 1          \* tasks created in one behaviour
MaxAssignments == 2    \* rows of task_assignments

ShortLife == 12                        \* exp of the short-lived tokens clients forge
ClockSteps == {12, 24}                 \* hours the clock may advance in one step
None == "None"                         \* Python's None: an absent header, field or body
Usernames == {"admin", "alice"}        \* names sent to register and login
Passwords == {"password", "pw1"}
Salts == {"s1", "s2"}                  \* outcomes of bcrypt.gensalt()
TeamNames == {"eng", "ops"}
TeamIds == 1..Cardinality(TeamNames)   \* ids a team can have: names are unique
RoleInputs == {""}                     \* 'role' of an add_member body; "" when absent
NoSuchId == 9                          \* an id beyond those the bounded store hands out

(***************************************************************************)
(* bcrypt (login.py:62,129,179).  A digest carries its salt; checkpw       *)
(* re-hashes the candidate under the digest's salt and compares.           *)
(***************************************************************************)
hashpw(password, salt) == [salt |-> salt, hash |-> <<salt, password>>]

\* A comparison that hashes the candidate under one fixed salt.
checkpw_fixed_salt(password, digest) == hashpw(password, "s1") = digest

checkpw(password, digest) == hashpw(password, digest.salt) = digest

(***************************************************************************)
(* RS256 tokens (login.py:51-54,182-186,78).  A signature binds the        *)
(* payload to the signing key; the public key accepts only what its own    *)
(* private key signed.                                                     *)
(***************************************************************************)
PRIVATE_KEY == "private_key.pem"
PUBLIC_KEY == "public_key.pem"
OtherKey == "other_private_key.pem"    \* a key the service does not own
Issuer == "task-manager"
TokenHours == 24

PublicOf(private) == IF private = PRIVATE_KEY THEN PUBLIC_KEY ELSE "other_public_key.pem"

jwt_encode(payload, key) == [payload |-> payload, sig |-> <<key, payload>>]

\* A decoder that validates iss before exp.
jwt_decode_iss_first(token, key, issuer, t) ==
    IF ~(Len(token.sig) = 2 /\ PublicOf(token.sig[1]) = key /\ token.sig[2] = token.payload)
    THEN [error |-> "InvalidTokenError", data |-> token.payload]
    ELSE IF token.payload.iss # issuer
    THEN [error |-> "InvalidTokenError", data |-> token.payload]
    ELSE IF token.payload.exp <= t
    THEN [error |-> "ExpiredSignatureError", data |-> token.payload]
    ELSE [error |-> "", data |-> token.payload]

\* A decoder for which a token is still good at the instant of its exp.
jwt_decode_exp_after(token, key, issuer, t) ==
    IF ~(Len(token.sig) = 2 /\ PublicOf(token.sig[1]) = key /\ token.sig[2] = token.payload)
    THEN [error |-> "InvalidTokenError", data |-> token.payload]
    ELSE IF token.payload.exp < t
    THEN [error |-> "ExpiredSignatureError", data |-> token.payload]
    ELSE IF token.payload.iss # issuer
    THEN [error |-> "InvalidTokenError", data |-> token.payload]
    ELSE [error |-> "", data |-> token.payload]

\* jwt.decode(token, key, algorithms=['RS256'], issuer=...): the signature is
\* verified first, then the registered claims: exp before iss.  The clock and
\* exp count whole units of the NumericDate; exp <= now is expired (PyJWT 2.6
\* and later).
jwt_decode(token, key, issuer, t) ==
    IF ~(Len(token.sig) = 2 /\ PublicOf(token.sig[1]) = key /\ token.sig[2] = token.payload)
    THEN [error |-> "InvalidTokenError", data |-> token.payload]
    ELSE IF token.payload.exp <= t
    THEN [error |-> "ExpiredSignatureError", data |-> token.payload]
    ELSE IF token.payload.iss # issuer
    THEN [error |-> "InvalidTokenError", data |-> token.payload]
    ELSE [error |-> "", data |-> token.payload]

\* Tokens a client can present that login never issued: an unsigned one, one
\* signed with a key the service does not own, one of another issuer; and the
\* last two with an expiry the clock passes.
ForeignTokens ==
    { [payload |-> [user |-> "admin", iss |-> Issuer, exp |-> MaxTime + TokenHours], sig |-> <<>>],
      jwt_encode([user |-> "admin", iss |-> Issuer, exp |-> MaxTime + TokenHours], OtherKey),
      jwt_encode([user |-> "admin", iss |-> "someone-else", exp |-> MaxTime + TokenHours], PRIVATE_KEY),
      jwt_encode([user |-> "admin", iss |-> Issuer, exp |-> ShortLife], OtherKey),
      jwt_encode([user |-> "admin", iss |-> "someone-else", exp |-> ShortLife], PRIVATE_KEY) }

\* An Authorization header is absent (<<>>), the bare token, or 'Bearer ' and the token.
NoHeader == <<>>
AuthHeaders(ts) == {NoHeader} \cup { <<tk>> : tk \in ts } \cup { <<"Bearer", tk>> : tk \in ts }

\* The two forms of Authorization header that carry a token.
HeadersOf(tk) == { <<tk>>, <<"Bearer", tk>> }

\* X-User is set by the client: any name, registered or not, or absent.
XUsers == Usernames \cup {"eve", None}

(***************************************************************************)
(* The store.  users, teams, tasks and notes are sets of rows keyed by id; *)
(* the link tables are bags of rows (no uniqueness constraint, and their   *)
(* own ids are never read).                                                *)
(***************************************************************************)
EmptyDb ==
    [ users |-> {}, user_seq |-> 1,
      teams |-> {}, team_seq |-> 1,
      team_members |-> EmptyBag,
      tasks |-> {}, task_seq |-> 1,
      task_assignments |-> EmptyBag,
      notes |-> {},
      user_notes |-> EmptyBag,
      task_notes |-> EmptyBag ]

The(S) == CHOOSE x \in S : TRUE

\* User.query.filter_by(username=...): the rows .first() chooses from.
UsersNamed(d, username) == { u \in d.users : u.username = username }

\* login.py:59-64, run at start-up of the login service.
WithAdmin(d) ==
    IF UsersNamed(d, "admin") = {}
    THEN [d EXCEPT !.users = @ \cup {[id |-> d.user_seq, username |-> "admin",
                                      password_hash |-> hashpw("password", "s1")]},
                   !.user_seq = @ + 1]
    ELSE d

\* A JSON string field that is present and not empty; "" stands for a field
\* that is absent, null or empty, all of which `not data.get(...)` rejects.
Truthy(x) == x # ""

(***************************************************************************)
(* Login service.                                                          *)
(***************************************************************************)
Response(status, message) == [status |-> status, message |-> message]

\* register, login.py:122-127: the checks made before the insert.
\* Status 0 stands for "no response yet".
register_check(d, data) ==
    IF ~Truthy(data.username) \/ ~Truthy(data.password)
    THEN Response(400, "Missing credentials")
    ELSE IF UsersNamed(d, data.username) # {}
    THEN Response(400, "User already exists")
    ELSE Response(0, "")

\* The INSERT without the unique constraint on users.username.
register_commit_no_unique(d, username, digest) ==
    [resp |-> Response(201, "User registered successfully"),
     db |-> [d EXCEPT !.users = @ \cup {[id |-> d.user_seq, username |-> username,
                                         password_hash |-> digest]},
                      !.user_seq = @ + 1]]

\* register, login.py:130-133 with models.py:8: the INSERT at commit.  The
\* unique constraint on username makes a second row an IntegrityError (500);
\* the sequence value it drew is not given back.
register_commit(d, username, digest) ==
    IF UsersNamed(d, username) # {}
    THEN [resp |-> Response(500, "IntegrityError"),
          db |-> [d EXCEPT !.user_seq = @ + 1]]
    ELSE [resp |-> Response(201, "User registered successfully"),
          db |-> [d EXCEPT !.users = @ \cup {[id |-> d.user_seq, username |-> username,
                                              password_hash |-> digest]},
                           !.user_seq = @ + 1]]

\* login without the password comparison.
login_no_checkpw(d, data, t) ==
    IF ~Truthy(data.username) \/ ~Truthy(data.password)
    THEN [resp |-> Response(400, "Missing credentials"), token |-> {}]
    ELSE IF UsersNamed(d, data.username) = {}
    THEN [resp |-> Response(401, "Invalid credentials"), token |-> {}]
    ELSE [resp |-> Response(200, ""),
          token |-> {jwt_encode([user |-> data.username, iss |-> Issuer,
                                 exp |-> t + TokenHours], PRIVATE_KEY)}]

\* login, login.py:171-188.  token is the set holding the token returned, if any.
login(d, data, t) ==
    IF ~Truthy(data.username) \/ ~Truthy(data.password)
    THEN [resp |-> Response(400, "Missing credentials"), token |-> {}]
    ELSE IF UsersNamed(d, data.username) = {}
    THEN [resp |-> Response(401, "Invalid credentials"), token |-> {}]
    ELSE IF ~checkpw(data.password, The(UsersNamed(d, data.username)).password_hash)
    THEN [resp |-> Response(401, "Invalid credentials"), token |-> {}]
    ELSE [resp |-> Response(200, ""),
          token |-> {jwt_encode([user |-> data.username, iss |-> Issuer,
                                 exp |-> t + TokenHours], PRIVATE_KEY)}]

\* auth_header.split(' ')[1] after 'Bearer ', else the header itself (login.py:74-77).
BearerToken(auth_header) ==
    IF Len(auth_header) = 2 THEN auth_header[2] ELSE auth_header[1]

\* A Verifier for which a token is spent once it has been accepted.
verify_one_time(auth_header, t) ==
    IF auth_header = NoHeader
    THEN [resp |-> Response(401, "Token is missing"), current_user |-> None]
    ELSE LET dec == jwt_decode(BearerToken(auth_header), PUBLIC_KEY, Issuer, t)
         IN  IF dec.error = "ExpiredSignatureError"
             THEN [resp |-> Response(401, "Token has expired"), current_user |-> None]
             ELSE IF dec.error = "InvalidTokenError"
                     \/ (last.op = "protected" /\ last.status = 200)
             THEN [resp |-> Response(401, "Token is invalid"), current_user |-> None]
             ELSE [resp |-> Response(0, ""), current_user |-> dec.data.user]

\* A Verifier that answers an absent header like a token it cannot decode.
verify_missing_as_invalid(auth_header, t) ==
    IF auth_header = NoHeader
    THEN [resp |-> Response(401, "Token is invalid"), current_user |-> None]
    ELSE LET dec == jwt_decode(BearerToken(auth_header), PUBLIC_KEY, Issuer, t)
         IN  IF dec.error = "ExpiredSignatureError"
             THEN [resp |-> Response(401, "Token has expired"), current_user |-> None]
             ELSE IF dec.error = "InvalidTokenError"
             THEN [resp |-> Response(401, "Token is invalid"), current_user |-> None]
             ELSE [resp |-> Response(0, ""), current_user |-> dec.data.user]

\* The Verifier: token_required up to its except clauses, login.py:70-84.
\* current_user is data['user'] of the decoded token.
verify(auth_header, t) ==
    IF auth_header = NoHeader
    THEN [resp |-> Response(401, "Token is missing"), current_user |-> None]
    ELSE LET dec == jwt_decode(BearerToken(auth_header), PUBLIC_KEY, Issuer, t)
         IN  IF dec.error = "ExpiredSignatureError"
             THEN [resp |-> Response(401, "Token has expired"), current_user |-> None]
             ELSE IF dec.error = "InvalidTokenError"
             THEN [resp |-> Response(401, "Token is invalid"), current_user |-> None]
             ELSE [resp |-> Response(0, ""), current_user |-> dec.data.user]

\* token_required wrapping protected, login.py:67-87 and 190-208: after the
\* token verifies, the handler is called with the X-User header (lines 85-86),
\* not with current_user.
token_required(auth_header, x_user, t) ==
    LET v == verify(auth_header, t)
    IN  IF v.resp.status # 0
        THEN [resp |-> v.resp, called |-> FALSE, identity |-> None, subject |-> None]
        ELSE [resp |-> Response(200, "Hello"), called |-> TRUE, identity |-> x_user,
              subject |-> v.current_user]

(***************************************************************************)
(* Requests and responses of the login service.                            *)
(***************************************************************************)
\* Bodies of POST /register and POST /login.
Credentials == [username : Usernames \cup {""}, password : Passwords \cup {""}]

NoLast ==
    [ op |-> "", status |-> 0, message |-> "",
      username |-> "", password |-> "",       \* the body of register and login
      auth |-> NoHeader, x_user |-> None,     \* the headers of a protected request
      called |-> FALSE, identity |-> None,    \* whether the handler ran, and for whom
      subject |-> None,                       \* data['user'] of the token, once verified
      at |-> 0,                               \* the clock when the request was served
      found |-> FALSE,                        \* register: the username was there at its check
      token |-> {},                           \* the token login returned
      changed |-> FALSE,                      \* whether the request changed the store
      notes |-> {} ]                          \* the notes whose content the response carries

Answer(op, resp, more) ==
    [ k \in DOMAIN NoLast |->
        IF k = "op" THEN op
        ELSE IF k = "status" THEN resp.status
        ELSE IF k = "message" THEN resp.message
        ELSE IF k \in DOMAIN more THEN more[k]
        ELSE NoLast[k] ]

\* register served alone: its check, then its insert (login.py:122-133).
register(d, data, salt) ==
    LET resp == register_check(d, data) IN
    IF resp.status # 0
    THEN [resp |-> resp, db |-> d]
    ELSE register_commit(d, data.username, hashpw(data.password, salt))

Register ==
    \E data \in Credentials, salt \in Salts :
        LET res == register(db, data, salt) IN
        /\ res.db.user_seq <= MaxUsers + 1
        /\ db' = res.db
        /\ registered' = IF res.resp.status = 201
                          THEN registered \cup {<<data.username, data.password>>}
                          ELSE registered
        /\ last' = Answer("register", res.resp,
                          [username |-> data.username, password |-> data.password,
                           found |-> UsersNamed(db, data.username) # {},
                           changed |-> res.db.users # db.users])
        /\ UNCHANGED <<tokens, now, inflight>>

\* register up to its check; a request that passes goes on to hash and insert.
RegisterBegin ==
    \E data \in Credentials :
        LET resp == register_check(db, data) IN
        /\ IF resp.status # 0
           THEN /\ last' = Answer("register", resp,
                                  [username |-> data.username, password |-> data.password,
                                   found |-> UsersNamed(db, data.username) # {}])
                /\ UNCHANGED inflight
           ELSE /\ Cardinality(inflight) < MaxInflight
                /\ db.user_seq + Cardinality(inflight) <= MaxUsers
                /\ \E salt \in Salts :
                       inflight' = inflight \cup
                           {[username |-> data.username, password |-> data.password,
                             digest |-> hashpw(data.password, salt)]}
                /\ UNCHANGED last
        /\ UNCHANGED <<db, tokens, now, registered>>

\* db.session.commit() of a register request in flight.
RegisterCommit ==
    \E r \in inflight :
        LET res == register_commit(db, r.username, r.digest) IN
        /\ db' = res.db
        /\ inflight' = inflight \ {r}
        /\ registered' = IF res.resp.status = 201
                          THEN registered \cup {<<r.username, r.password>>}
                          ELSE registered
        /\ last' = Answer("register", res.resp,
                          [username |-> r.username, password |-> r.password,
                           changed |-> res.db.users # db.users])
        /\ UNCHANGED <<tokens, now>>

Login ==
    \E data \in Credentials :
        LET res == login(db, data, now) IN
        /\ Cardinality(tokens \cup res.token) <= MaxTokens
        /\ tokens' = tokens \cup res.token
        /\ last' = Answer("login", res.resp,
                          [username |-> data.username, password |-> data.password,
                           token |-> res.token, at |-> now])
        /\ UNCHANGED <<db, now, inflight, registered>>

\* GET /protected.
Protected ==
    \E auth_header \in AuthHeaders(tokens \cup ForeignTokens), x_user \in XUsers :
        LET res == token_required(auth_header, x_user, now) IN
        /\ last' = Answer("protected", res.resp,
                          [auth |-> auth_header, x_user |-> x_user,
                           called |-> res.called, identity |-> res.identity,
                           subject |-> res.subject, at |-> now])
        /\ UNCHANGED <<db, tokens, now, inflight, registered>>

Tick ==
    \E h \in ClockSteps :
        /\ now + h <= MaxTime
        /\ now' = now + h
        /\ UNCHANGED <<db, tokens, inflight, registered, last>>

InitLogin ==
    /\ db = WithAdmin(EmptyDb)
    /\ tokens = {}
    /\ now = 0
    /\ inflight = {}
    /\ registered = {<<"admin", "password">>}
    /\ last = NoLast

\* The login service, one request at a time.
NextLogin == Register \/ Login \/ Protected \/ Tick

SpecLogin == InitLogin /\ [][NextLogin]_vars

\* The Verifier at work: tokens are issued, presented and age; nobody registers.
NextVerify == Login \/ Protected \/ Tick

SpecVerify == InitLogin /\ [][NextVerify]_vars

\* Register requests served concurrently: each is its check and, later, its commit.
NextRegister == RegisterBegin \/ RegisterCommit \/ Login

SpecRegister == InitLogin /\ [][NextRegister]_vars

(***************************************************************************)
(* Team service (team/team.py) and task service (task/task.py).            *)
(*                                                                         *)
(* Rows keep the columns the handlers' checks read: a team its id and      *)
(* name, a member row its team, user and role, a task its id and team.     *)
(* An exception no handler catches is answered 500 and the session's       *)
(* changes are dropped.                                                    *)
(***************************************************************************)
Unchanged(d, status, message) == [resp |-> Response(status, message), db |-> d]

BagPut(B, row) == B (+) SetToBag({row})
BagDrop(B, row) == B (-) SetToBag({row})

\* Team.query.get(team_id), Task.query.get(task_id), User.query.get(user_id):
\* the rows with that primary key, none or one.
TeamsWithId(d, team_id) == { t \in d.teams : t.id = team_id }
TasksWithId(d, task_id) == { t \in d.tasks : t.id = task_id }
UsersWithId(d, user_id) == { u \in d.users : u.id = user_id }

\* The member list of a check that lets only owners act.
member_ids_owners(d, team_id) ==
    { m.user_id : m \in { r \in BagToSet(d.team_members) :
                              r.team_id = team_id /\ r.role = "owner" } }

\* [member.user_id for member in team.members]
member_ids(d, team_id) ==
    { m.user_id : m \in { r \in BagToSet(d.team_members) : r.team_id = team_id } }

\* get_user_from_headers, team.py:54-59 (task.py:54-59, note.py:54-59): the
\* handler is called with the X-User header; the Authorization header is not read.
get_user_from_headers(auth_header, x_user) == x_user

\* create_team that commits the team row alone.
create_team_no_owner(d, user_name, data) ==
    IF ~Truthy(data.name) THEN Unchanged(d, 400, "Team name is required")
    ELSE IF \E t \in d.teams : t.name = data.name
    THEN Unchanged(d, 400, "Team name already exists")
    ELSE IF UsersNamed(d, user_name) = {} THEN Unchanged(d, 404, "User not found")
    ELSE [resp |-> Response(201, ""),
          db |-> [d EXCEPT !.teams = @ \cup {[id |-> d.team_seq, name |-> data.name]},
                           !.team_seq = @ + 1]]

\* create_team, team.py:205-231.  The team row is flushed and the owner row
\* added in one session; the single commit writes both.
create_team(d, user_name, data) ==
    IF ~Truthy(data.name) THEN Unchanged(d, 400, "Team name is required")
    ELSE IF \E t \in d.teams : t.name = data.name
    THEN Unchanged(d, 400, "Team name already exists")
    ELSE IF UsersNamed(d, user_name) = {} THEN Unchanged(d, 404, "User not found")
    ELSE LET user == The(UsersNamed(d, user_name)) IN
         [resp |-> Response(201, ""),
          db |-> [d EXCEPT !.teams = @ \cup {[id |-> d.team_seq, name |-> data.name]},
                           !.team_seq = @ + 1,
                           !.team_members = BagPut(@, [team_id |-> d.team_seq,
                                                       user_id |-> user.id,
                                                       role |-> "owner"])]]

\* update_team, team.py:264-288.  data.has is false for an empty body; a body
\* without 'name' keeps the name.  teams.name is unique (models.py:23): taking
\* another team's name fails at commit.
update_team(d, user_name, team_id, data) ==
    IF TeamsWithId(d, team_id) = {} THEN Unchanged(d, 404, "Team not found")
    ELSE IF ~data.has THEN Unchanged(d, 400, "No data provided")
    ELSE IF UsersNamed(d, user_name) = {} THEN Unchanged(d, 404, "User not found")
    ELSE LET team == The(TeamsWithId(d, team_id))
             user == The(UsersNamed(d, user_name))
             name == IF Truthy(data.name) THEN data.name ELSE team.name
         IN  IF user.id \notin member_ids(d, team_id)
             THEN Unchanged(d, 403, "Unauthorized to update this team. User is not a member")
             ELSE IF \E t \in d.teams : t.id # team_id /\ t.name = name
             THEN Unchanged(d, 500, "IntegrityError")
             ELSE [resp |-> Response(200, ""),
                   db |-> [d EXCEPT !.teams = (@ \ {team}) \cup {[id |-> team_id, name |-> name]}]]

\* delete_team on a store that lets a team go while rows still point at it.
delete_team_unrefused(d, user_name, team_id) ==
    IF TeamsWithId(d, team_id) = {} THEN Unchanged(d, 404, "Team not found")
    ELSE IF UsersNamed(d, user_name) = {} THEN Unchanged(d, 404, "User not found")
    ELSE LET team == The(TeamsWithId(d, team_id))
             user == The(UsersNamed(d, user_name))
         IN  IF user.id \notin member_ids(d, team_id)
             THEN Unchanged(d, 403, "Unauthorized to delete this team. User is not a member")
             ELSE [resp |-> Response(200, "Team deleted successfully"),
                   db |-> [d EXCEPT !.teams = @ \ {team}]]

\* delete_team, team.py:312-326.  The relationships to member rows and tasks
\* carry no delete cascade (models.py:38,54), so deleting the team sets their
\* team column to NULL, which the columns refuse (models.py:33,52).
delete_team(d, user_name, team_id) ==
    IF TeamsWithId(d, team_id) = {} THEN Unchanged(d, 404, "Team not found")
    ELSE IF UsersNamed(d, user_name) = {} THEN Unchanged(d, 404, "User not found")
    ELSE LET team == The(TeamsWithId(d, team_id))
             user == The(UsersNamed(d, user_name))
         IN  IF user.id \notin member_ids(d, team_id)
             THEN Unchanged(d, 403, "Unauthorized to delete this team. User is not a member")
             ELSE IF \/ member_ids(d, team_id) # {}
                     \/ \E t \in d.tasks : t.team = team_id
             THEN Unchanged(d, 500, "IntegrityError")
             ELSE [resp |-> Response(200, "Team deleted successfully"),
                   db |-> [d EXCEPT !.teams = @ \ {team}]]

\* add_member without the check that the caller is a member.
add_member_open(d, user_name, team_id, data) ==
    IF TeamsWithId(d, team_id) = {} THEN Unchanged(d, 404, "Team not found")
    ELSE IF data.member_id = 0 THEN Unchanged(d, 400, "Member ID is required")
    ELSE IF UsersNamed(d, user_name) = {} THEN Unchanged(d, 404, "User not found")
    ELSE IF UsersWithId(d, data.member_id) = {}
    THEN Unchanged(d, 404, "User to add not found")
    ELSE IF data.member_id \in member_ids(d, team_id)
    THEN Unchanged(d, 400, "User is already a member")
    ELSE [resp |-> Response(200, "Member added successfully"),
          db |-> [d EXCEPT !.team_members =
                      BagPut(@, [team_id |-> team_id, user_id |-> data.member_id,
                                 role |-> IF Truthy(data.role) THEN data.role
                                          ELSE "member"])]]

\* add_member that inserts its row before it looks for the same member.
add_member_insert_first(d, user_name, team_id, data) ==
    IF TeamsWithId(d, team_id) = {} THEN Unchanged(d, 404, "Team not found")
    ELSE IF data.member_id = 0 THEN Unchanged(d, 400, "Member ID is required")
    ELSE IF UsersNamed(d, user_name) = {} THEN Unchanged(d, 404, "User not found")
    ELSE LET user == The(UsersNamed(d, user_name))
             added == [d EXCEPT !.team_members =
                          BagPut(@, [team_id |-> team_id, user_id |-> data.member_id,
                                     role |-> IF Truthy(data.role) THEN data.role
                                              ELSE "member"])]
         IN  IF user.id \notin member_ids(d, team_id)
             THEN Unchanged(d, 403, "Unauthorized to add members to this team. User is not a member")
             ELSE IF UsersWithId(d, data.member_id) = {}
             THEN Unchanged(d, 404, "User to add not found")
             ELSE IF data.member_id \in member_ids(d, team_id)
             THEN [resp |-> Response(400, "User is already a member"), db |-> added]
             ELSE [resp |-> Response(200, "Member added successfully"), db |-> added]

\* add_member, team.py:366-397.  member_id 0 stands for a body without one.
add_member(d, user_name, team_id, data) ==
    IF TeamsWithId(d, team_id) = {} THEN Unchanged(d, 404, "Team not found")
    ELSE IF data.member_id = 0 THEN Unchanged(d, 400, "Member ID is required")
    ELSE IF UsersNamed(d, user_name) = {} THEN Unchanged(d, 404, "User not found")
    ELSE LET user == The(UsersNamed(d, user_name)) IN
         IF user.id \notin member_ids(d, team_id)
         THEN Unchanged(d, 403, "Unauthorized to add members to this team. User is not a member")
         ELSE IF UsersWithId(d, data.member_id) = {}
         THEN Unchanged(d, 404, "User to add not found")
         ELSE IF data.member_id \in member_ids(d, team_id)
         THEN Unchanged(d, 400, "User is already a member")
         ELSE [resp |-> Response(200, "Member added successfully"),
               db |-> [d EXCEPT !.team_members =
                           BagPut(@, [team_id |-> team_id, user_id |-> data.member_id,
                                      role |-> IF Truthy(data.role) THEN data.role
                                               ELSE "member"])]]

\* remove_member, team.py:425-443.  The outcomes: .first() may return any of
\* the rows of (team_id, member_id).
remove_member(d, user_name, team_id, member_id) ==
    IF TeamsWithId(d, team_id) = {} THEN {Unchanged(d, 404, "Team not found")}
    ELSE IF UsersNamed(d, user_name) = {} THEN {Unchanged(d, 404, "User not found")}
    ELSE LET user == The(UsersNamed(d, user_name))
             rows == { r \in BagToSet(d.team_members) :
                          r.team_id = team_id /\ r.user_id = member_id }
         IN  IF user.id \notin member_ids(d, team_id)
             THEN {Unchanged(d, 403, "Unauthorized to remove members from this team. User is not a member")}
             ELSE IF rows = {} THEN {Unchanged(d, 404, "Member not found in team")}
             ELSE { [resp |-> Response(200, "Member removed successfully"),
                     db |-> [d EXCEPT !.team_members = BagDrop(@, team_member)]]
                    : team_member \in rows }

\* create_task without the check that the caller is a member.
create_task_open(d, user_name, data) ==
    IF ~Truthy(data.title) \/ data.team_id = 0
    THEN Unchanged(d, 400, "Title and Team ID are required")
    ELSE IF UsersNamed(d, user_name) = {} THEN Unchanged(d, 404, "User not found")
    ELSE IF TeamsWithId(d, data.team_id) = {} THEN Unchanged(d, 404, "Team not found")
    ELSE [resp |-> Response(201, ""),
          db |-> [d EXCEPT !.tasks = @ \cup {[id |-> d.task_seq, team |-> data.team_id]},
                           !.task_seq = @ + 1]]

\* create_task, task.py:148-172.  team_id 0 stands for a body without one.
create_task(d, user_name, data) ==
    IF ~Truthy(data.title) \/ data.team_id = 0
    THEN Unchanged(d, 400, "Title and Team ID are required")
    ELSE IF UsersNamed(d, user_name) = {} THEN Unchanged(d, 404, "User not found")
    ELSE IF TeamsWithId(d, data.team_id) = {} THEN Unchanged(d, 404, "Team not found")
    ELSE LET user == The(UsersNamed(d, user_name)) IN
         IF user.id \notin member_ids(d, data.team_id)
         THEN Unchanged(d, 403, "Unauthorized")
         ELSE [resp |-> Response(201, ""),
               db |-> [d EXCEPT !.tasks = @ \cup {[id |-> d.task_seq, team |-> data.team_id]},
                                !.task_seq = @ + 1]]

\* assign_task that refuses a (task, user) pair already assigned.
assign_task_once(d, user_name, task_id, user_id) ==
    IF TasksWithId(d, task_id) = {} THEN Unchanged(d, 404, "Task not found")
    ELSE IF UsersNamed(d, user_name) = {} THEN Unchanged(d, 404, "User not found")
    ELSE LET task == The(TasksWithId(d, task_id))
             user == The(UsersNamed(d, user_name))
         IN  IF TeamsWithId(d, task.team) = {}
             THEN Unchanged(d, 500, "AttributeError")
             ELSE IF user.id \notin member_ids(d, task.team)
             THEN Unchanged(d, 403, "Unauthorized")
             ELSE IF UsersWithId(d, user_id) = {} \/ user_id \notin member_ids(d, task.team)
             THEN Unchanged(d, 403, "Invalid assignee")
             ELSE IF BagIn([task_id |-> task_id, user_id |-> user_id], d.task_assignments)
             THEN Unchanged(d, 400, "Already assigned")
             ELSE [resp |-> Response(201, ""),
                   db |-> [d EXCEPT !.task_assignments =
                               BagPut(@, [task_id |-> task_id, user_id |-> user_id])]]

\* assign_task that checks the caller alone.
assign_task_caller_only(d, user_name, task_id, user_id) ==
    IF TasksWithId(d, task_id) = {} THEN Unchanged(d, 404, "Task not found")
    ELSE IF UsersNamed(d, user_name) = {} THEN Unchanged(d, 404, "User not found")
    ELSE LET task == The(TasksWithId(d, task_id))
             user == The(UsersNamed(d, user_name))
         IN  IF TeamsWithId(d, task.team) = {}
             THEN Unchanged(d, 500, "AttributeError")
             ELSE IF user.id \notin member_ids(d, task.team)
             THEN Unchanged(d, 403, "Unauthorized")
             ELSE IF UsersWithId(d, user_id) = {}
             THEN Unchanged(d, 403, "Invalid assignee")
             ELSE [resp |-> Response(201, ""),
                   db |-> [d EXCEPT !.task_assignments =
                               BagPut(@, [task_id |-> task_id, user_id |-> user_id])]]

\* assign_task, task.py:196-215.
assign_task(d, user_name, task_id, user_id) ==
    IF TasksWithId(d, task_id) = {} THEN Unchanged(d, 404, "Task not found")
    ELSE IF UsersNamed(d, user_name) = {} THEN Unchanged(d, 404, "User not found")
    ELSE LET task == The(TasksWithId(d, task_id))
             user == The(UsersNamed(d, user_name))
         IN  IF TeamsWithId(d, task.team) = {}
             THEN Unchanged(d, 500, "AttributeError")   \* team is None
             ELSE IF user.id \notin member_ids(d, task.team)
             THEN Unchanged(d, 403, "Unauthorized")
             ELSE IF UsersWithId(d, user_id) = {} \/ user_id \notin member_ids(d, task.team)
             THEN Unchanged(d, 403, "Invalid assignee")
             ELSE [resp |-> Response(201, ""),
                   db |-> [d EXCEPT !.task_assignments =
                               BagPut(@, [task_id |-> task_id, user_id |-> user_id])]]

(***************************************************************************)
(* Note service (note/note.py), and GET /teams/<team_id>/notes of the team *)
(* service.  A note row keeps id, content and created_by.  The Note model  *)
(* (models.py:73-78) has no title and no updated_at column: building a     *)
(* Note with title=... is a TypeError, and reading note.title of a loaded  *)
(* row is an AttributeError.  A read answers with `notes`, the ids of the  *)
(* notes whose content is in the response.                                 *)
(***************************************************************************)
NotesWithId(d, note_id) == { n \in d.notes : n.id = note_id }

Read(status, message, ids) == [resp |-> Response(status, message), notes |-> ids]

\* A lookup that never finds the share row.
has_user_note_never(d, note_id, user_id) == FALSE

\* UserNote.query.filter_by(note_id=..., user_id=...).first() is not None
has_user_note(d, note_id, user_id) ==
    [note_id |-> note_id, user_id |-> user_id] \in BagToSet(d.user_notes)

\* TaskNote.query.filter_by(note_id=..., task_id=...).first() is not None
has_task_note(d, note_id, task_id) ==
    [note_id |-> note_id, task_id |-> task_id] \in BagToSet(d.task_notes)

\* TeamMember.query.filter_by(team_id=..., user_id=...).first() is not None
is_team_member(d, team_id, user_id) ==
    \E r \in BagToSet(d.team_members) : r.team_id = team_id /\ r.user_id = user_id

\* The notes a list route serializes for a set of tasks: Note.query.get of
\* every task_notes row of those tasks, when the note exists.
linked_notes(d, task_ids) ==
    { n.id : n \in { m \in d.notes :
                       \E r \in BagToSet(d.task_notes) :
                           r.note_id = m.id /\ r.task_id \in task_ids } }

\* get_all_notes, note.py:111-144.  Serializing any note reads note.title.
get_all_notes(d, user_name) ==
    IF UsersNamed(d, user_name) = {} THEN Read(404, "User not found", {})
    ELSE LET user == The(UsersNamed(d, user_name))
             created == { n \in d.notes : n.created_by = user.id }
             assigned == { n \in d.notes : has_user_note(d, n.id, user.id) }
         IN  IF created \cup assigned # {}
             THEN Read(500, "AttributeError", {})
             ELSE Read(200, "", {})

\* get_note_by_id, note.py:180-197.  The response reads note.title.
get_note_by_id(d, user_name, note_id) ==
    IF UsersNamed(d, user_name) = {} THEN Read(404, "User not found", {})
    ELSE IF NotesWithId(d, note_id) = {} THEN Read(404, "Note not found", {})
    ELSE LET user == The(UsersNamed(d, user_name))
             note == The(NotesWithId(d, note_id))
         IN  IF note.created_by # user.id /\ ~has_user_note(d, note.id, user.id)
             THEN Read(403, "Access denied to this note", {})
             ELSE Read(500, "AttributeError", {})

\* get_team_notes of the note service, note.py:240-263.
get_team_notes(d, user_name, team_id) ==
    IF UsersNamed(d, user_name) = {} THEN Read(404, "User not found", {})
    ELSE LET user == The(UsersNamed(d, user_name)) IN
         IF ~is_team_member(d, team_id, user.id)
         THEN Read(403, "User is not a member of this team", {})
         ELSE Read(200, "", linked_notes(d, { t.id : t \in { k \in d.tasks : k.team = team_id } }))

\* get_task_notes, note.py:302-325.
get_task_notes(d, user_name, task_id) ==
    IF UsersNamed(d, user_name) = {} THEN Read(404, "User not found", {})
    ELSE IF TasksWithId(d, task_id) = {} THEN Read(404, "Task not found", {})
    ELSE LET user == The(UsersNamed(d, user_name))
             task == The(TasksWithId(d, task_id))
         IN  IF ~is_team_member(d, task.team, user.id)
             THEN Read(403, "User is not a member of the team for this task", {})
             ELSE Read(200, "", linked_notes(d, {task.id}))

\* get_team_notes of the team service, team.py:528-544: no caller is read.
team_get_team_notes(d, team_id) ==
    IF TeamsWithId(d, team_id) = {} THEN Read(404, "Team not found", {})
    ELSE Read(200, "", linked_notes(d, { t.id : t \in { k \in d.tasks : k.team = team_id } }))

\* create_note, note.py:364-380.  Note(title=..., ...) raises TypeError.
create_note(d, user_name, data) ==
    IF ~Truthy(data.content) THEN Unchanged(d, 400, "Content is required")
    ELSE IF UsersNamed(d, user_name) = {} THEN Unchanged(d, 404, "User not found")
    ELSE Unchanged(d, 500, "TypeError")

\* A write check that also lets the users a note is shared with act.
is_creator_or_shared(d, note, user) ==
    note.created_by = user.id \/ has_user_note(d, note.id, user.id)

\* note.created_by != user.id, the test of note.py:421, 463 and 510.
is_creator(d, note, user) == note.created_by = user.id

\* update_note, note.py:413-432.  data.has is false for a JSON null body,
\* on which data.get raises; content "" stands for a body without content.
update_note(d, user_name, note_id, data) ==
    IF UsersNamed(d, user_name) = {} THEN Unchanged(d, 404, "User not found")
    ELSE IF NotesWithId(d, note_id) = {} THEN Unchanged(d, 404, "Note not found")
    ELSE LET user == The(UsersNamed(d, user_name))
             note == The(NotesWithId(d, note_id))
         IN  IF ~is_creator(d, note, user)
             THEN Unchanged(d, 403, "Only the creator can update this note")
             ELSE IF ~data.has THEN Unchanged(d, 500, "AttributeError")
             ELSE [resp |-> Response(200, "Note updated successfully"),
                   db |-> [d EXCEPT !.notes = (@ \ {note}) \cup
                              {[note EXCEPT !.content = IF Truthy(data.content)
                                                        THEN data.content ELSE @]}]]

\* A bulk delete that removes nothing.
BagUntouched(B, note_id) == B

\* A bag without the rows of the note (filter_by(note_id=...).delete()).
BagWithout(B, note_id) ==
    LET keep == { r \in BagToSet(B) : r.note_id # note_id } IN [r \in keep |-> B[r]]

\* delete_note, note.py:455-472.
delete_note(d, user_name, note_id) ==
    IF UsersNamed(d, user_name) = {} THEN Unchanged(d, 404, "User not found")
    ELSE IF NotesWithId(d, note_id) = {} THEN Unchanged(d, 404, "Note not found")
    ELSE LET user == The(UsersNamed(d, user_name))
             note == The(NotesWithId(d, note_id))
         IN  IF ~is_creator(d, note, user)
             THEN Unchanged(d, 403, "Only the creator can delete this note")
             ELSE [resp |-> Response(200, "Note deleted successfully"),
                   db |-> [d EXCEPT !.user_notes = BagWithout(@, note.id),
                                    !.task_notes = BagWithout(@, note.id),
                                    !.notes = @ \ {note}]]

\* assign_note_to_user that hands the note over to the assignee.
assign_note_to_user_handover(d, user_name, note_id, assignee_user_id) ==
    IF UsersNamed(d, user_name) = {} THEN Unchanged(d, 404, "User not found")
    ELSE IF NotesWithId(d, note_id) = {} THEN Unchanged(d, 404, "Note not found")
    ELSE LET user == The(UsersNamed(d, user_name))
             note == The(NotesWithId(d, note_id))
         IN  IF ~is_creator(d, note, user)
             THEN Unchanged(d, 403, "Only the creator can assign this note")
             ELSE IF UsersWithId(d, assignee_user_id) = {}
             THEN Unchanged(d, 404, "Assignee user not found")
             ELSE IF has_user_note(d, note.id, assignee_user_id)
             THEN Unchanged(d, 400, "Note already assigned to this user")
             ELSE [resp |-> Response(200, ""),
                   db |-> [d EXCEPT !.user_notes =
                               BagPut(@, [note_id |-> note.id, user_id |-> assignee_user_id]),
                                    !.notes = (@ \ {note}) \cup
                                        {[note EXCEPT !.created_by = assignee_user_id]}]]

\* assign_note_to_user, note.py:502-527.
assign_note_to_user(d, user_name, note_id, assignee_user_id) ==
    IF UsersNamed(d, user_name) = {} THEN Unchanged(d, 404, "User not found")
    ELSE IF NotesWithId(d, note_id) = {} THEN Unchanged(d, 404, "Note not found")
    ELSE LET user == The(UsersNamed(d, user_name))
             note == The(NotesWithId(d, note_id))
         IN  IF ~is_creator(d, note, user)
             THEN Unchanged(d, 403, "Only the creator can assign this note")
             ELSE IF UsersWithId(d, assignee_user_id) = {}
             THEN Unchanged(d, 404, "Assignee user not found")
             ELSE IF has_user_note(d, note.id, assignee_user_id)
             THEN Unchanged(d, 400, "Note already assigned to this user")
             ELSE [resp |-> Response(200, ""),
                   db |-> [d EXCEPT !.user_notes =
                               BagPut(@, [note_id |-> note.id, user_id |-> assignee_user_id])]]

\* link_note_to_task that also serves the creator of the note.
link_note_to_task_or_creator(d, user_name, note_id, task_id) ==
    IF UsersNamed(d, user_name) = {} THEN Unchanged(d, 404, "User not found")
    ELSE IF NotesWithId(d, note_id) = {} THEN Unchanged(d, 404, "Note not found")
    ELSE IF TasksWithId(d, task_id) = {} THEN Unchanged(d, 404, "Task not found")
    ELSE LET user == The(UsersNamed(d, user_name))
             note == The(NotesWithId(d, note_id))
             task == The(TasksWithId(d, task_id))
         IN  IF ~is_team_member(d, task.team, user.id) /\ note.created_by # user.id
             THEN Unchanged(d, 403, "User is not a member of the team for this task")
             ELSE IF has_task_note(d, note.id, task.id)
             THEN Unchanged(d, 400, "Note already linked to this task")
             ELSE [resp |-> Response(200, ""),
                   db |-> [d EXCEPT !.task_notes =
                               BagPut(@, [note_id |-> note.id, task_id |-> task.id])]]

\* link_note_to_task, note.py:557-582.
link_note_to_task(d, user_name, note_id, task_id) ==
    IF UsersNamed(d, user_name) = {} THEN Unchanged(d, 404, "User not found")
    ELSE IF NotesWithId(d, note_id) = {} THEN Unchanged(d, 404, "Note not found")
    ELSE IF TasksWithId(d, task_id) = {} THEN Unchanged(d, 404, "Task not found")
    ELSE LET user == The(UsersNamed(d, user_name))
             note == The(NotesWithId(d, note_id))
             task == The(TasksWithId(d, task_id))
         IN  IF ~is_team_member(d, task.team, user.id)
             THEN Unchanged(d, 403, "User is not a member of the team for this task")
             ELSE IF has_task_note(d, note.id, task.id)
             THEN Unchanged(d, 400, "Note already linked to this task")
             ELSE [resp |-> Response(200, ""),
                   db |-> [d EXCEPT !.task_notes =
                               BagPut(@, [note_id |-> note.id, task_id |-> task.id])]]

\* unlink_note_from_task, note.py:610-632.
unlink_note_from_task(d, user_name, note_id, task_id) ==
    IF UsersNamed(d, user_name) = {} THEN Unchanged(d, 404, "User not found")
    ELSE IF NotesWithId(d, note_id) = {} THEN Unchanged(d, 404, "Note not found")
    ELSE IF TasksWithId(d, task_id) = {} THEN Unchanged(d, 404, "Task not found")
    ELSE LET user == The(UsersNamed(d, user_name))
             note == The(NotesWithId(d, note_id))
             task == The(TasksWithId(d, task_id))
         IN  IF ~is_team_member(d, task.team, user.id)
             THEN Unchanged(d, 403, "User is not a member of the team for this task")
             ELSE IF ~has_task_note(d, note.id, task.id)
             THEN Unchanged(d, 404, "Note is not linked to this task")
             ELSE [resp |-> Response(200, ""),
                   db |-> [d EXCEPT !.task_notes =
                               BagDrop(@, [note_id |-> note.id, task_id |-> task.id])]]

(***************************************************************************)
(* Requests to the team and task services.  X-User and Authorization are   *)
(* whatever the client sends; a client holds the tokens issued so far.     *)
(***************************************************************************)
\* Registered users, as register leaves them.
Admin == [id |-> 1, username |-> "admin", password_hash |-> hashpw("password", "s1")]
Alice == [id |-> 2, username |-> "alice", password_hash |-> hashpw("pw1", "s1")]
Bob == [id |-> 3, username |-> "bob", password_hash |-> hashpw("pw1", "s2")]

\* X-User: the name of a registered user, or absent.
StoreXUsers == { u.username : u \in db.users } \cup {None}
UserIds == { u.id : u \in db.users }

\* Bodies of PUT /teams/<id>, POST /teams/<id>/members and POST /tasks.
UpdateTeamBodies ==
    {[has |-> FALSE, name |-> ""]} \cup [has : {TRUE}, name : TeamNames \cup {""}]
AddMemberBodies == [member_id : UserIds \cup {0, NoSuchId}, role : RoleInputs]
CreateTaskBodies == [title : {"", "t"}, team_id : TeamIds \cup {0}]

\* The response to a request of the team, task or note service.
Serve(op, auth_header, x_user, res) ==
    /\ db' = res.db
    /\ last' = [NoLast EXCEPT !.op = op, !.status = res.resp.status,
                              !.auth = auth_header, !.x_user = x_user, !.at = now,
                              !.changed = (res.db # db)]
    /\ UNCHANGED <<tokens, now, inflight, registered>>

CreateTeam ==
    \E auth_header \in AuthHeaders(tokens), x_user \in StoreXUsers,
       data \in [name : TeamNames \cup {""}] :
        LET res == create_team(db, get_user_from_headers(auth_header, x_user), data) IN
        Serve("create_team", auth_header, x_user, res)

UpdateTeam ==
    \E auth_header \in AuthHeaders(tokens), x_user \in StoreXUsers, team_id \in TeamIds,
       data \in UpdateTeamBodies :
        Serve("update_team", auth_header, x_user,
              update_team(db, get_user_from_headers(auth_header, x_user), team_id, data))

DeleteTeam ==
    \E auth_header \in AuthHeaders(tokens), x_user \in StoreXUsers, team_id \in TeamIds :
        Serve("delete_team", auth_header, x_user, delete_team(db, get_user_from_headers(auth_header, x_user), team_id))

AddMember ==
    \E auth_header \in AuthHeaders(tokens), x_user \in StoreXUsers, team_id \in TeamIds,
       data \in AddMemberBodies :
        Serve("add_member", auth_header, x_user, add_member(db, get_user_from_headers(auth_header, x_user), team_id, data))

RemoveMember ==
    \E auth_header \in AuthHeaders(tokens), x_user \in StoreXUsers, team_id \in TeamIds,
       member_id \in UserIds :
        \E res \in remove_member(db, get_user_from_headers(auth_header, x_user),
                                 team_id, member_id) :
            Serve("remove_member", auth_header, x_user, res)

CreateTask ==
    \E auth_header \in AuthHeaders(tokens), x_user \in StoreXUsers,
       data \in CreateTaskBodies :
        LET res == create_task(db, get_user_from_headers(auth_header, x_user), data) IN
        /\ res.db.task_seq <= MaxTasks + 1
        /\ Serve("create_task", auth_header, x_user, res)

\* The team service and create_task over a store that holds two registered users.
InitTeams ==
    /\ db = [EmptyDb EXCEPT !.users = {Admin, Alice}, !.user_seq = 3]
    /\ tokens = {}
    /\ now = 0
    /\ inflight = {}
    /\ registered = {<<"admin", "password">>, <<"alice", "pw1">>}
    /\ last = NoLast

NextTeams ==
    \/ CreateTeam \/ UpdateTeam \/ DeleteTeam \/ AddMember \/ RemoveMember
    \/ CreateTask

SpecTeams == InitTeams /\ [][NextTeams]_vars

(***************************************************************************)
(* add_member requests served concurrently (the services run threaded,     *)
(* team.py:547, one session per request).  A request is its checks         *)
(* (team.py:366-387), made on the committed store, and later its insert    *)
(* and commit (team.py:389-395); team_members has no unique constraint     *)
(* (models.py:30-36), so the commit refuses nothing.                       *)
(***************************************************************************)
\* TeamMember(team_id=..., user_id=data['member_id'], role=data.get('role', 'member'))
new_team_member(team_id, data) ==
    [team_id |-> team_id, user_id |-> data.member_id,
     role |-> IF Truthy(data.role) THEN data.role ELSE "member"]

\* Requests in flight are told apart by their content; n numbers the
\* copies of one request, and the copy numbered last commits first (the
\* copies are alike, so their order does not matter).
Copies(req) == { q \in inflight : q.req = req }
Numbered(req) == [n |-> Cardinality(Copies(req)) + 1, req |-> req]
IsLastCopy(r) == r.n = Cardinality(Copies(r.req))

AddMemberBegin ==
    \E auth_header \in AuthHeaders(tokens), x_user \in StoreXUsers, team_id \in TeamIds,
       data \in AddMemberBodies :
        LET res == add_member(db, get_user_from_headers(auth_header, x_user), team_id, data) IN
        IF res.resp.status # 200
        THEN Serve("add_member", auth_header, x_user, res)
        ELSE /\ Cardinality(inflight) < MaxInflight
             /\ inflight' = inflight \cup
                    {Numbered([x_user |-> x_user, row |-> new_team_member(team_id, data)])}
             /\ UNCHANGED <<db, tokens, now, registered, last>>

AddMemberCommit ==
    \E r \in inflight :
        /\ IsLastCopy(r)
        /\ db' = [db EXCEPT !.team_members = BagPut(@, r.req.row)]
        /\ inflight' = inflight \ {r}
        /\ last' = [NoLast EXCEPT !.op = "add_member", !.status = 200,
                                  !.x_user = r.req.x_user, !.at = now, !.changed = TRUE]
        /\ UNCHANGED <<tokens, now, registered>>

NextMembers == CreateTeam \/ AddMemberBegin \/ AddMemberCommit \/ RemoveMember

SpecMembers == InitTeams /\ [][NextMembers]_vars

(***************************************************************************)
(* The task service over a store that holds a team: create_task and        *)
(* assign_task, with the membership changes their checks depend on.        *)
(***************************************************************************)
AssignTask ==
    \E auth_header \in AuthHeaders(tokens), x_user \in StoreXUsers,
       task_id \in 1..MaxTasks \cup {NoSuchId}, user_id \in UserIds \cup {NoSuchId} :
        LET res == assign_task(db, get_user_from_headers(auth_header, x_user),
                               task_id, user_id) IN
        /\ BagCardinality(res.db.task_assignments) <= MaxAssignments
        /\ Serve("assign_task", auth_header, x_user, res)

\* admin has created team 'eng'; alice is registered and not yet a member.
InitTasks ==
    /\ db = [EmptyDb EXCEPT
               !.users = {Admin, Alice}, !.user_seq = 3,
               !.teams = {[id |-> 1, name |-> "eng"]}, !.team_seq = 2,
               !.team_members =
                   SetToBag({[team_id |-> 1, user_id |-> Admin.id, role |-> "owner"]})]
    /\ tokens = {}
    /\ now = 0
    /\ inflight = {}
    /\ registered = {<<"admin", "password">>, <<"alice", "pw1">>}
    /\ last = NoLast

NextTasks == AddMember \/ RemoveMember \/ CreateTask \/ AssignTask

SpecTasks == InitTasks /\ [][NextTasks]_vars

(***************************************************************************)
(* Requests to the note service and to GET /teams/<team_id>/notes.         *)
(***************************************************************************)
NoteIds == {1, NoSuchId}
TaskIds == {1, NoSuchId}
NoteContents == {"c1", "c2"}
UpdateNoteBodies ==
    {[has |-> FALSE, content |-> ""]} \cup [has : {TRUE}, content : NoteContents \cup {""}]

\* The answer to a read: the store is left alone.
ServeRead(op, auth_header, x_user, res) ==
    /\ last' = [NoLast EXCEPT !.op = op, !.status = res.resp.status,
                              !.auth = auth_header, !.x_user = x_user, !.at = now,
                              !.notes = res.notes]
    /\ UNCHANGED <<db, tokens, now, inflight, registered>>

CreateNote ==
    \E auth_header \in AuthHeaders(tokens), x_user \in StoreXUsers,
       data \in [content : NoteContents \cup {""}] :
        Serve("create_note", auth_header, x_user,
              create_note(db, get_user_from_headers(auth_header, x_user), data))

UpdateNote ==
    \E auth_header \in AuthHeaders(tokens), x_user \in StoreXUsers, note_id \in NoteIds,
       data \in UpdateNoteBodies :
        Serve("update_note", auth_header, x_user,
              update_note(db, get_user_from_headers(auth_header, x_user), note_id, data))

DeleteNote ==
    \E auth_header \in AuthHeaders(tokens), x_user \in StoreXUsers, note_id \in NoteIds :
        Serve("delete_note", auth_header, x_user,
              delete_note(db, get_user_from_headers(auth_header, x_user), note_id))

AssignNoteToUser ==
    \E auth_header \in AuthHeaders(tokens), x_user \in StoreXUsers, note_id \in NoteIds,
       assignee_user_id \in UserIds \cup {NoSuchId} :
        Serve("assign_note_to_user", auth_header, x_user,
              assign_note_to_user(db, get_user_from_headers(auth_header, x_user),
                                  note_id, assignee_user_id))

LinkNoteToTask ==
    \E auth_header \in AuthHeaders(tokens), x_user \in StoreXUsers, note_id \in NoteIds,
       task_id \in TaskIds :
        Serve("link_note_to_task", auth_header, x_user,
              link_note_to_task(db, get_user_from_headers(auth_header, x_user),
                                note_id, task_id))

UnlinkNoteFromTask ==
    \E auth_header \in AuthHeaders(tokens), x_user \in StoreXUsers, note_id \in NoteIds,
       task_id \in TaskIds :
        Serve("unlink_note_from_task", auth_header, x_user,
              unlink_note_from_task(db, get_user_from_headers(auth_header, x_user),
                                    note_id, task_id))

GetAllNotes ==
    \E auth_header \in AuthHeaders(tokens), x_user \in StoreXUsers :
        ServeRead("get_all_notes", auth_header, x_user,
                  get_all_notes(db, get_user_from_headers(auth_header, x_user)))

GetNoteById ==
    \E auth_header \in AuthHeaders(tokens), x_user \in StoreXUsers, note_id \in NoteIds :
        ServeRead("get_note_by_id", auth_header, x_user,
                  get_note_by_id(db, get_user_from_headers(auth_header, x_user), note_id))

GetTeamNotes ==
    \E auth_header \in AuthHeaders(tokens), x_user \in StoreXUsers, team_id \in TeamIds :
        ServeRead("get_team_notes", auth_header, x_user,
                  get_team_notes(db, get_user_from_headers(auth_header, x_user), team_id))

GetTaskNotes ==
    \E auth_header \in AuthHeaders(tokens), x_user \in StoreXUsers, task_id \in TaskIds :
        ServeRead("get_task_notes", auth_header, x_user,
                  get_task_notes(db, get_user_from_headers(auth_header, x_user), task_id))

\* GET /teams/<team_id>/notes is not wrapped: no header reaches the handler.
TeamGetTeamNotes ==
    \E auth_header \in AuthHeaders(tokens), x_user \in StoreXUsers, team_id \in TeamIds :
        ServeRead("team_get_team_notes", auth_header, x_user, team_get_team_notes(db, team_id))

\* The note service over a store that holds three users, the team "eng" of
\* admin (owner) and alice (member) with one task, and one note, written by
\* admin or by bob before the services started.
InitNotes ==
    /\ \E creator \in {Admin.id, Bob.id} :
           db = [EmptyDb EXCEPT
                   !.users = {Admin, Alice, Bob}, !.user_seq = 4,
                   !.teams = {[id |-> 1, name |-> "eng"]}, !.team_seq = 2,
                   !.team_members =
                       SetToBag({[team_id |-> 1, user_id |-> Admin.id, role |-> "owner"],
                                 [team_id |-> 1, user_id |-> Alice.id, role |-> "member"]}),
                   !.tasks = {[id |-> 1, team |-> 1]}, !.task_seq = 2,
                   !.notes = {[id |-> 1, content |-> "c1", created_by |-> creator]}]
    /\ tokens = {}
    /\ now = 0
    /\ inflight = {}
    /\ registered = {<<"admin", "password">>, <<"alice", "pw1">>, <<"bob", "pw1">>}
    /\ last = NoLast

NextNotes ==
    \/ CreateNote \/ UpdateNote \/ DeleteNote \/ AssignNoteToUser
    \/ LinkNoteToTask \/ UnlinkNoteFromTask
    \/ GetAllNotes \/ GetNoteById \/ GetTeamNotes \/ GetTaskNotes \/ TeamGetTeamNotes

SpecNotes == InitNotes /\ [][NextNotes]_vars

(***************************************************************************)
(* assign_note_to_user and link_note_to_task served concurrently.  A       *)
(* request is its checks (note.py:502-518, 557-573), made on the committed *)
(* store, and later its insert and commit (note.py:520-525, 575-580).      *)
(* user_notes and task_notes have foreign keys to notes and no unique      *)
(* constraint (models.py:85-101).                                          *)
(***************************************************************************)
\* An INSERT that a unique constraint on the row's columns would refuse.
insert_row_unique(d, table, row) ==
    IF NotesWithId(d, row.note_id) = {} \/ BagIn(row, d[table])
    THEN Unchanged(d, 500, "IntegrityError")
    ELSE [resp |-> Response(200, ""), db |-> [d EXCEPT ![table] = BagPut(@, row)]]

\* db.session.add(row); db.session.commit() into user_notes or task_notes:
\* refused only when the note is gone (foreign key).
insert_row(d, table, row) ==
    IF NotesWithId(d, row.note_id) = {}
    THEN Unchanged(d, 500, "IntegrityError")
    ELSE [resp |-> Response(200, ""), db |-> [d EXCEPT ![table] = BagPut(@, row)]]

\* The row a handler's answer adds to a table.
AddedRow(res, table) ==
    The({ r \in BagToSet(res.db[table]) : CopiesIn(r, res.db[table]) > CopiesIn(r, db[table]) })

\* A request that passed its checks waits for its commit.
Pend(op, x_user, table, row) ==
    /\ Cardinality(inflight) < MaxInflight
    /\ inflight' = inflight \cup
           {Numbered([op |-> op, x_user |-> x_user, table |-> table, row |-> row])}
    /\ UNCHANGED <<db, tokens, now, registered, last>>

AssignNoteBegin ==
    \E auth_header \in AuthHeaders(tokens), x_user \in StoreXUsers, note_id \in NoteIds,
       assignee_user_id \in UserIds \cup {NoSuchId} :
        LET res == assign_note_to_user(db, get_user_from_headers(auth_header, x_user),
                                       note_id, assignee_user_id) IN
        IF res.resp.status # 200
        THEN Serve("assign_note_to_user", auth_header, x_user, res)
        ELSE Pend("assign_note_to_user", x_user, "user_notes", AddedRow(res, "user_notes"))

LinkNoteBegin ==
    \E auth_header \in AuthHeaders(tokens), x_user \in StoreXUsers, note_id \in NoteIds,
       task_id \in TaskIds :
        LET res == link_note_to_task(db, get_user_from_headers(auth_header, x_user),
                                     note_id, task_id) IN
        IF res.resp.status # 200
        THEN Serve("link_note_to_task", auth_header, x_user, res)
        ELSE Pend("link_note_to_task", x_user, "task_notes", AddedRow(res, "task_notes"))

\* The insert and commit of a request in flight.
LinkCommit ==
    \E r \in inflight :
        LET res == insert_row(db, r.req.table, r.req.row) IN
        /\ IsLastCopy(r)
        /\ db' = res.db
        /\ inflight' = inflight \ {r}
        /\ last' = [NoLast EXCEPT !.op = r.req.op, !.status = res.resp.status,
                                  !.x_user = r.req.x_user, !.at = now,
                                  !.changed = (res.db # db)]
        /\ UNCHANGED <<tokens, now, registered>>

\* admin (owner) and alice (member) of team 'eng' with one task, and one
\* note written by admin.
InitShares ==
    /\ db = [EmptyDb EXCEPT
               !.users = {Admin, Alice}, !.user_seq = 3,
               !.teams = {[id |-> 1, name |-> "eng"]}, !.team_seq = 2,
               !.team_members =
                   SetToBag({[team_id |-> 1, user_id |-> Admin.id, role |-> "owner"],
                             [team_id |-> 1, user_id |-> Alice.id, role |-> "member"]}),
               !.tasks = {[id |-> 1, team |-> 1]}, !.task_seq = 2,
               !.notes = {[id |-> 1, content |-> "c1", created_by |-> Admin.id]}]
    /\ tokens = {}
    /\ now = 0
    /\ inflight = {}
    /\ registered = {<<"admin", "password">>, <<"alice", "pw1">>}
    /\ last = NoLast

NextShares == AssignNoteBegin \/ LinkNoteBegin \/ LinkCommit \/ DeleteNote

SpecShares == InitShares /\ [][NextShares]_vars

(***************************************************************************)
(* Tokens in use while the store changes: the login service, register      *)
(* included, next to membership changes on the shared store.               *)
(***************************************************************************)
\* GET /protected by the holder of a token login issued, under their own name.
ProtectedByHolder ==
    \E tk \in tokens : \E auth_header \in HeadersOf(tk) :
        LET res == token_required(auth_header, tk.payload.user, now) IN
        /\ last' = Answer("protected", res.resp,
                          [auth |-> auth_header, x_user |-> tk.payload.user,
                           called |-> res.called, identity |-> res.identity,
                           subject |-> res.subject, at |-> now])
        /\ UNCHANGED <<db, tokens, now, inflight, registered>>

\* The start-up store of the login service, after admin created team 'eng'.
InitTokens ==
    /\ db = [WithAdmin(EmptyDb) EXCEPT
               !.teams = {[id |-> 1, name |-> "eng"]}, !.team_seq = 2,
               !.team_members =
                   SetToBag({[team_id |-> 1, user_id |-> Admin.id, role |-> "owner"]})]
    /\ tokens = {}
    /\ now = 0
    /\ inflight = {}
    /\ registered = {<<"admin", "password">>}
    /\ last = NoLast

NextTokens ==
    \/ Login \/ ProtectedByHolder \/ Tick
    \/ Register \/ RemoveMember

SpecTokens == InitTokens /\ [][NextTokens]_vars

(***************************************************************************)
(* create_task and add_member served next to remove_member.  A request is  *)
(* its checks (task.py:148-161, team.py:366-387), made on the committed    *)
(* store, and later its insert and commit (task.py:163-171,                *)
(* team.py:389-395), which read nothing again.                             *)
(***************************************************************************)
\* A write that looks at the member list once more before it commits.
write_row_rechecked(d, req) ==
    IF \A u \in UsersNamed(d, req.x_user) : u.id \notin member_ids(d, req.team_id)
    THEN Unchanged(d, 403, "Unauthorized")
    ELSE IF req.op = "create_task"
    THEN [resp |-> Response(201, ""),
          db |-> [d EXCEPT !.tasks = @ \cup {[id |-> d.task_seq, team |-> req.team_id]},
                           !.task_seq = @ + 1]]
    ELSE [resp |-> Response(200, "Member added successfully"),
          db |-> [d EXCEPT !.team_members = BagPut(@, new_team_member(req.team_id, req.data))]]

\* db.session.add(task) or db.session.add(team_member), then db.session.commit().
\* The foreign key to teams (models.py:33,52) refuses a row of a team that is gone.
write_row(d, req) ==
    IF TeamsWithId(d, req.team_id) = {}
    THEN Unchanged(d, 500, "IntegrityError")
    ELSE IF req.op = "create_task"
    THEN [resp |-> Response(201, ""),
          db |-> [d EXCEPT !.tasks = @ \cup {[id |-> d.task_seq, team |-> req.team_id]},
                           !.task_seq = @ + 1]]
    ELSE [resp |-> Response(200, "Member added successfully"),
          db |-> [d EXCEPT !.team_members = BagPut(@, new_team_member(req.team_id, req.data))]]

\* The create_task requests in flight: each will draw an id at its commit.
TasksInFlight == { r \in inflight : r.req.op = "create_task" }

CreateTaskCheck ==
    \E auth_header \in AuthHeaders(tokens), x_user \in StoreXUsers,
       data \in CreateTaskBodies :
        LET res == create_task(db, get_user_from_headers(auth_header, x_user), data) IN
        IF res.resp.status # 201
        THEN Serve("create_task", auth_header, x_user, res)
        ELSE /\ Cardinality(inflight) < MaxInflight
             /\ db.task_seq + Cardinality(TasksInFlight) <= MaxTasks
             /\ inflight' = inflight \cup
                    {Numbered([op |-> "create_task", x_user |-> x_user,
                               team_id |-> data.team_id,
                               data |-> [member_id |-> 0, role |-> ""]])}
             /\ UNCHANGED <<db, tokens, now, registered, last>>

AddMemberCheck ==
    \E auth_header \in AuthHeaders(tokens), x_user \in StoreXUsers, team_id \in TeamIds,
       data \in AddMemberBodies :
        LET res == add_member(db, get_user_from_headers(auth_header, x_user), team_id, data) IN
        IF res.resp.status # 200
        THEN Serve("add_member", auth_header, x_user, res)
        ELSE /\ Cardinality(inflight) < MaxInflight
             /\ inflight' = inflight \cup
                    {Numbered([op |-> "add_member", x_user |-> x_user,
                               team_id |-> team_id, data |-> data])}
             /\ UNCHANGED <<db, tokens, now, registered, last>>

\* The insert and commit of a create_task or add_member request in flight.
WriteCommit ==
    \E r \in inflight :
        LET res == write_row(db, r.req) IN
        /\ IsLastCopy(r)
        /\ db' = res.db
        /\ inflight' = inflight \ {r}
        /\ last' = [NoLast EXCEPT !.op = r.req.op, !.status = res.resp.status,
                                  !.x_user = r.req.x_user, !.at = now,
                                  !.changed = (res.db # db)]
        /\ UNCHANGED <<tokens, now, registered>>

NextRace == CreateTaskCheck \/ AddMemberCheck \/ WriteCommit \/ RemoveMember

SpecRace == InitTasks /\ [][NextRace]_vars

(***************************************************************************)
(* The team, task and note services on the shared store, one request at a  *)
(* time: the requests that change who belongs to the team, what tasks it   *)
(* has and what the note is shared with and linked to.                     *)
(***************************************************************************)
NextStore ==
    \/ AddMember \/ RemoveMember \/ CreateTask
    \/ AssignNoteToUser \/ LinkNoteToTask \/ DeleteNote

SpecStore == InitShares /\ [][NextStore]_vars

(***************************************************************************)
(* Claims about the login service.                                         *)
(***************************************************************************)

\* C1 (as stated): whenever token_required calls the protected handler, the
\* identity it hands over is the subject ('user' claim) of the verified token.
C1_IdentityIsTokenSubject ==
    (last.op = "protected" /\ last.called) => last.identity = last.subject

\* C8: login with a pair that register accepted answers 200 with a token, and
\* the Verifier, given that token at once, reports no error and the
\* registered username as subject.
C8_RegisterLoginVerify ==
    (last.op = "login" /\ <<last.username, last.password>> \in registered) =>
        /\ last.status = 200
        /\ Cardinality(last.token) = 1
        /\ \A tk \in last.token :
               /\ verify(<<"Bearer", tk>>, last.at) =
                      [resp |-> Response(0, ""), current_user |-> last.username]
               /\ verify(<<tk>>, last.at) =
                      [resp |-> Response(0, ""), current_user |-> last.username]

C8_Witness ==
    /\ last.op = "login"
    /\ last.username = "alice"
    /\ <<last.username, last.password>> \in registered
    /\ last.status = 200
    /\ last.at > 0

\* C9: login answers 200, or returns a token, only for a pair that was
\* registered; with both fields present, a wrong password for an existing
\* user and any password for a user that does not exist get the same 401 and
\* the same message.
C9_LoginNeedsPassword ==
    last.op = "login" =>
        /\ (last.status = 200 \/ last.token # {}) =>
               /\ <<last.username, last.password>> \in registered
               /\ \E u \in db.users : /\ u.username = last.username
                                      /\ checkpw(last.password, u.password_hash)
        /\ (/\ Truthy(last.username) /\ Truthy(last.password)
            /\ <<last.username, last.password>> \notin registered) =>
               /\ last.status = 401
               /\ last.message = "Invalid credentials"
               /\ last.token = {}

\* Both kinds of refusal are reached: a wrong password for a registered user
\* (this state) and a user that does not exist (C9_WitnessAbsent).
C9_Witness ==
    /\ last.op = "login"
    /\ last.status = 401
    /\ last.username = "alice"
    /\ UsersNamed(db, "alice") # {}

C9_WitnessAbsent ==
    /\ last.op = "login"
    /\ last.status = 401
    /\ UsersNamed(db, last.username) = {}

\* C10: a register whose check finds the username answers 400 and changes
\* nothing, and, however register requests interleave, no two rows of users
\* carry the same username.
C10_UsernameUnique ==
    /\ \A u1, u2 \in db.users : u1.username = u2.username => u1 = u2
    /\ (last.op = "register" /\ last.found) => (last.status = 400 /\ ~last.changed)

\* Two requests for the same new name both passed the check; the second
\* commit was refused by the store.
C10_Witness ==
    /\ last.op = "register"
    /\ last.status = 500
    /\ ~last.found
    /\ Cardinality(UsersNamed(db, last.username)) = 1

C10_WitnessExists ==
    /\ last.op = "register"
    /\ last.found
    /\ last.status = 400
    /\ last.message = "User already exists"

(***************************************************************************)
(* Claims about the team, task and note services.  The relations the       *)
(* claims speak of are read off the store here, apart from the handlers.   *)
(***************************************************************************)
StoreOps ==
    { "create_team", "update_team", "delete_team", "add_member", "remove_member",
      "create_task", "assign_task", "create_note", "update_note", "delete_note",
      "assign_note_to_user", "link_note_to_task", "unlink_note_from_task" }

MemberRow(team_id, user_id) ==
    \E r \in BagToSet(db.team_members) : r.team_id = team_id /\ r.user_id = user_id

ShareRow(note_id, user_id) ==
    \E r \in BagToSet(db.user_notes) : r.note_id = note_id /\ r.user_id = user_id

\* user is a member of the team that owns a task the note is linked to.
LinkedTeamMember(note_id, user_id) ==
    \E r \in BagToSet(db.task_notes), t \in db.tasks :
        r.note_id = note_id /\ r.task_id = t.id /\ MemberRow(t.team, user_id)

MayRead(note, user) ==
    \/ note.created_by = user.id
    \/ ShareRow(note.id, user.id)
    \/ LinkedTeamMember(note.id, user.id)

\* C2 (as stated): a state-changing request of the team, task or note
\* service changes the store only if it presented a token the Verifier accepts.
C2_ChangeNeedsAcceptedToken ==
    (last.op \in StoreOps /\ last.changed) =>
        verify(last.auth, last.at).resp.status = 0

\* The responses of the team-mutating operations to user on team, each with
\* whether the request's body has the fields the handler requires.
TeamResponses(team, user) ==
    { [valid |-> data.has, res |-> update_team(db, user.username, team.id, data)]
        : data \in UpdateTeamBodies }
    \cup { [valid |-> TRUE, res |-> delete_team(db, user.username, team.id)] }
    \cup { [valid |-> data.member_id # 0, res |-> add_member(db, user.username, team.id, data)]
             : data \in AddMemberBodies }
    \cup { [valid |-> TRUE, res |-> res]
             : res \in UNION { remove_member(db, user.username, team.id, member_id)
                                 : member_id \in UserIds } }
    \cup { [valid |-> Truthy(data.title), res |-> create_task(db, user.username, data)]
             : data \in { b \in CreateTaskBodies : b.team_id = team.id } }

\* C3 (as stated): for an existing team and an existing user, a team-mutating
\* operation passes its authorization check exactly when the user has a
\* membership row, and a user without one always gets 403.
C3_NonMemberAlways403 ==
    \A team \in db.teams, user \in db.users :
        \A r \in TeamResponses(team, user) :
            IF MemberRow(team.id, user.id)
            THEN r.res.resp.status # 403
            ELSE r.res.resp.status = 403

\* C3 (amended): the check is passed exactly when the user has a membership
\* row, whatever its role.  A user without one is never served: 403 when the
\* body has the required fields, 400 ahead of the check when it has not
\* (update_team with an empty body, add_member without member_id, create_task
\* without a title); the store is unchanged either way.
C3_MembershipDecides ==
    \A team \in db.teams, user \in db.users :
        \A r \in TeamResponses(team, user) :
            IF MemberRow(team.id, user.id)
            THEN r.res.resp.status # 403
            ELSE /\ r.res.resp.status = IF r.valid THEN 403 ELSE 400
                 /\ r.res.db = db

\* A user without a row was refused on a team one of whose members has the
\* role 'member' and passes.
C3_Witness ==
    /\ last.op \in {"update_team", "delete_team", "add_member", "remove_member", "create_task"}
    /\ last.status = 403
    /\ \E user \in UsersNamed(db, last.x_user), team \in db.teams :
           /\ ~MemberRow(team.id, user.id)
           /\ \E r \in BagToSet(db.team_members), other \in db.users :
                  /\ r.team_id = team.id /\ r.user_id = other.id /\ r.role = "member"
                  /\ update_team(db, other.username, team.id,
                                 [has |-> TRUE, name |-> ""]).resp.status = 200

\* C4: update_note, delete_note and assign_note_to_user answer 200 only to
\* the note's creator; any other existing user gets 403 and the store (the
\* note, its shares, its links) is unchanged.
C4_OnlyCreatorWrites ==
    /\ \A note \in db.notes, user \in db.users :
           user.id # note.created_by =>
               \A res \in { update_note(db, user.username, note.id, data)
                              : data \in UpdateNoteBodies }
                          \cup { delete_note(db, user.username, note.id) }
                          \cup { assign_note_to_user(db, user.username, note.id, a)
                                   : a \in UserIds \cup {NoSuchId} } :
                   res.resp.status = 403 /\ res.db = db
    /\ \A x_user \in StoreXUsers, note_id \in NoteIds :
           \A res \in { update_note(db, x_user, note_id, data) : data \in UpdateNoteBodies }
                      \cup { delete_note(db, x_user, note_id) }
                      \cup { assign_note_to_user(db, x_user, note_id, a)
                               : a \in UserIds \cup {NoSuchId} } :
               (res.resp.status = 200 \/ res.db # db) =>
                   \E user \in UsersNamed(db, x_user), note \in NotesWithId(db, note_id) :
                       note.created_by = user.id

\* alice, who holds a share of the note and belongs to the team of a task it
\* is linked to, but did not write it, was refused.
C4_Witness ==
    /\ last.op \in {"update_note", "delete_note", "assign_note_to_user"}
    /\ last.status = 403
    /\ last.x_user = "alice"
    /\ \E note \in db.notes :
           /\ note.created_by # Alice.id
           /\ ShareRow(note.id, Alice.id)
           /\ LinkedTeamMember(note.id, Alice.id)

\* C5 (as stated): link_note_to_task and unlink_note_from_task change the
\* link relation only for the note's creator; any other user is refused.
C5_OnlyCreatorLinks ==
    \A note \in db.notes, task \in db.tasks, user \in db.users :
        user.id # note.created_by =>
            \A res \in { link_note_to_task(db, user.username, note.id, task.id),
                         unlink_note_from_task(db, user.username, note.id, task.id) } :
                res.resp.status # 200 /\ res.db = db

\* C6 (as stated): get_note_by_id answers 200 to the creator, to a user the
\* note is shared with and to a member of the team of a task it is linked
\* to, and 403 to any other existing user.
C6_GetNoteByIdPolicy ==
    \A note \in db.notes, user \in db.users :
        get_note_by_id(db, user.username, note.id).resp.status =
            IF MayRead(note, user) THEN 200 ELSE 403

\* C7 (as stated): a read returns a note's content only to a caller who is
\* its creator, holds a share of it, or belongs to the team of a task it is
\* linked to.
C7_ReadsFollowPolicy ==
    last.op \in {"get_all_notes", "get_note_by_id", "get_team_notes", "get_task_notes",
                 "team_get_team_notes"} =>
        \A note \in db.notes :
            note.id \in last.notes =>
                \E user \in UsersNamed(db, last.x_user) : MayRead(note, user)

(***************************************************************************)
(* Token lifetime (login.py:182-186 and 78-81).                            *)
(***************************************************************************)
\* Instants at which a token may be presented: the present, the ends of the
\* clock, and the instants around the expiry of every token a client holds.
Instants ==
    {0, now, MaxTime}
    \cup UNION { {tk.payload.exp - 1, tk.payload.exp, tk.payload.exp + 1}
                    : tk \in tokens \cup ForeignTokens }

\* C11: a token issued at time t carries expiry t + 24h; presented at any
\* instant before its expiry it verifies, and at its expiry or later,
\* the boundary included, the answer is 401 'Token has expired'.
C11_ExpiryBoundary ==
    /\ (last.op = "login" /\ last.token # {})
           => The(last.token).payload.exp = last.at + TokenHours
    /\ \A tk \in tokens : \A h \in HeadersOf(tk) : \A t \in Instants :
           LET v == verify(h, t) IN
           IF t < tk.payload.exp
           THEN v.resp.status = 0 /\ v.current_user = tk.payload.user
           ELSE v.resp = Response(401, "Token has expired")
    /\ (last.op = "protected" /\ last.auth # NoHeader /\ BearerToken(last.auth) \in tokens)
           => IF last.at < BearerToken(last.auth).payload.exp
              THEN last.status = 200 /\ last.called
              ELSE last.status = 401 /\ last.message = "Token has expired" /\ ~last.called

\* A token issued by login was presented exactly at its expiry and refused as expired.
C11_Witness ==
    /\ last.op = "protected"
    /\ last.auth # NoHeader
    /\ BearerToken(last.auth) \in tokens
    /\ last.at = BearerToken(last.auth).payload.exp
    /\ last.message = "Token has expired"

\* A token issued by login was presented one step before its expiry and accepted.
C11_WitnessValid ==
    /\ last.op = "protected"
    /\ last.auth # NoHeader
    /\ BearerToken(last.auth) \in tokens
    /\ last.at > 0 /\ last.at < BearerToken(last.auth).payload.exp
    /\ last.status = 200

(***************************************************************************)
(* Order of the Verifier's checks (login.py:78-84, jwt.decode).            *)
(***************************************************************************)
\* The signature of the token is the service's own.
SignedByService(tk) == tk.sig = <<PRIVATE_KEY, tk.payload>>

\* The token the last protected request presented.
Presented == { BearerToken(h) : h \in {last.auth} \ {NoHeader} }

\* C12 as stated: a correctly signed token whose issuer is not 'task-manager'
\* is answered 'Token is invalid', whether or not it is past its expiry.
C12_IssuerBeforeExpiry ==
    \A tk \in Presented :
        (last.op = "protected" /\ SignedByService(tk) /\ tk.payload.iss # Issuer)
            => last.message = "Token is invalid"

\* C12, amended: the checks run in the order signature, expiry, issuer.  A
\* token with a bad signature is 'Token is invalid' whatever its expiry; a
\* correctly signed token past its expiry is 'Token has expired' whatever its
\* issuer; a correctly signed, unexpired token of another issuer is 'Token is
\* invalid'; any other token is accepted.
C12_ExpiryBeforeIssuer ==
    /\ \A tk \in tokens \cup ForeignTokens : \A h \in HeadersOf(tk) : \A t \in Instants :
           LET v == verify(h, t) IN
           IF ~SignedByService(tk) THEN v.resp = Response(401, "Token is invalid")
           ELSE IF tk.payload.exp <= t THEN v.resp = Response(401, "Token has expired")
           ELSE IF tk.payload.iss # Issuer THEN v.resp = Response(401, "Token is invalid")
           ELSE v.resp.status = 0
    /\ \A tk \in Presented :
           last.op = "protected" =>
               last.message =
                   IF ~SignedByService(tk) THEN "Token is invalid"
                   ELSE IF tk.payload.exp <= last.at THEN "Token has expired"
                   ELSE IF tk.payload.iss # Issuer THEN "Token is invalid"
                   ELSE "Hello"

\* A correctly signed token of another issuer was presented after its expiry
\* and answered 'Token has expired'.
C12_Witness ==
    \E tk \in Presented :
        /\ last.op = "protected"
        /\ SignedByService(tk) /\ tk.payload.iss # Issuer
        /\ tk.payload.exp <= last.at
        /\ last.message = "Token has expired"

(***************************************************************************)
(* Responses of a protected route (login.py:69-86).                        *)
(***************************************************************************)
\* The verified token is past its expiry at instant t.
Expired(tk, t) == SignedByService(tk) /\ tk.payload.exp <= t

\* The token is one the Verifier accepts at instant t.
Accepted(tk, t) == SignedByService(tk) /\ t < tk.payload.exp /\ tk.payload.iss = Issuer

\* C13: a protected route answers 401 and does not call the handler in three
\* cases, each with its own message: 'Token is missing' when there is no
\* Authorization header, 'Token has expired' for an expired token, 'Token is
\* invalid' for any other token it rejects; the same token with and without
\* the 'Bearer ' prefix gets the same answer.
C13_ThreeRejections ==
    /\ \A x_user \in XUsers : \A t \in Instants :
           /\ LET r == token_required(NoHeader, x_user, t)
              IN  r.resp = Response(401, "Token is missing") /\ ~r.called
           /\ \A tk \in tokens \cup ForeignTokens :
                  LET bare == token_required(<<tk>>, x_user, t)
                      bearer == token_required(<<"Bearer", tk>>, x_user, t)
                  IN  /\ bare = bearer
                      /\ IF Accepted(tk, t) THEN bare.resp.status = 200 /\ bare.called
                         ELSE IF Expired(tk, t)
                         THEN bare.resp = Response(401, "Token has expired") /\ ~bare.called
                         ELSE bare.resp = Response(401, "Token is invalid") /\ ~bare.called
    /\ last.op = "protected" =>
           /\ last.status \in {200, 401}
           /\ last.called <=> last.status = 200
           /\ last.status = 401 =>
                  last.message \in {"Token is missing", "Token has expired", "Token is invalid"}
           /\ last.message = "Token is missing" <=> last.auth = NoHeader

\* A token that is not expired was presented behind 'Bearer ' and refused as
\* invalid without the handler being called.
C13_Witness ==
    \E tk \in Presented :
        /\ last.op = "protected"
        /\ last.auth = <<"Bearer", tk>>
        /\ ~Expired(tk, last.at)
        /\ last.status = 401 /\ last.message = "Token is invalid" /\ ~last.called

\* A request with no Authorization header was refused as missing.
C13_WitnessMissing ==
    /\ last.op = "protected" /\ last.auth = NoHeader
    /\ last.status = 401 /\ last.message = "Token is missing" /\ ~last.called

(***************************************************************************)
(* Joining a team (team.py:366-397, task.py:148-172).                      *)
(***************************************************************************)
\* C14: for any team and any registered user who is not a member of it, an
\* add_member request by that user, whoever it names (themself included),
\* returns 403 and leaves the store unchanged; a user who holds a membership
\* row of the team, such as one an existing member added, gets 201 from
\* create_task under the team.
C14_JoinOnlyThroughMember ==
    \A team \in db.teams : \A user \in db.users :
        IF ~MemberRow(team.id, user.id)
        THEN \A data \in AddMemberBodies :
                 data.member_id # 0 =>
                     LET res == add_member(db, user.username, team.id, data)
                     IN  res.resp.status = 403 /\ res.db = db
        ELSE create_task(db, user.username, [title |-> "t", team_id |-> team.id]).resp.status = 201

\* A user whom a member added to the team (role 'member', not the creator's
\* 'owner') has just created a task under it.
C14_Witness ==
    \E task \in db.tasks : \E user \in db.users :
        /\ last.op = "create_task" /\ last.status = 201
        /\ last.x_user = user.username
        /\ [team_id |-> task.team, user_id |-> user.id, role |-> "member"]
               \in BagToSet(db.team_members)

\* A user who is a member of no team was refused by add_member.
C14_WitnessRefused ==
    \E user \in db.users :
        /\ last.op = "add_member" /\ last.status = 403 /\ ~last.changed
        /\ last.x_user = user.username
        /\ db.teams # {}
        /\ \A team \in db.teams : ~MemberRow(team.id, user.id)

(***************************************************************************)
(* The creator's membership (team.py:205-231).                             *)
(***************************************************************************)
\* The membership rows of a team, as a set of rows with their multiplicity.
RowsOf(team_id) ==
    { <<r, db.team_members[r]>> : r \in { m \in BagToSet(db.team_members) : m.team_id = team_id } }

\* C15: right after a successful create_team the new team has exactly one
\* membership row, the creating user's with role 'owner'; the team row and
\* that row are written by one commit, so no committed store holds a freshly
\* created team without its creator's membership.
C15_CreatorIsSoleOwner ==
    /\ (last.op = "create_team" /\ last.status = 201) =>
           \E team \in db.teams : \E user \in UsersNamed(db, last.x_user) :
               /\ team.id = db.team_seq - 1
               /\ RowsOf(team.id) =
                      { <<[team_id |-> team.id, user_id |-> user.id, role |-> "owner"], 1>> }
    /\ \A x_user \in StoreXUsers : \A data \in [name : TeamNames] :
           LET res == create_team(db, x_user, data) IN
           res.resp.status = 201 =>
               \E user \in UsersNamed(db, x_user) :
                   /\ res.db.teams = db.teams \cup {[id |-> db.team_seq, name |-> data.name]}
                   /\ res.db.team_members =
                          BagPut(db.team_members,
                                 [team_id |-> db.team_seq, user_id |-> user.id, role |-> "owner"])
                   /\ ~\E r \in BagToSet(db.team_members) : r.team_id = db.team_seq

\* A second team has just been created, by a user who is a member of the first.
C15_Witness ==
    /\ last.op = "create_team" /\ last.status = 201
    /\ Cardinality(db.teams) = 2
    /\ \E user \in UsersNamed(db, last.x_user) :
           \A team \in db.teams : MemberRow(team.id, user.id)

(***************************************************************************)
(* Membership rows under concurrent requests (team.py:378-395).            *)
(***************************************************************************)
\* The number of membership rows of (team_id, user_id).
MemberRows(team_id, user_id) ==
    LET rows == { r \in BagToSet(db.team_members) :
                     r.team_id = team_id /\ r.user_id = user_id }
        RECURSIVE Sum(_)
        Sum(S) == IF S = {} THEN 0
                  ELSE LET r == The(S) IN db.team_members[r] + Sum(S \ {r})
    IN  Sum(rows)

\* C16: after any sequence and any interleaving of create_team, add_member
\* and remove_member requests there is at most one membership row per
\* (team, user); two concurrent add_member requests for the same user and
\* team do not both insert a row.
C16_OneRowPerPair ==
    \A team_id \in TeamIds : \A user_id \in UserIds : MemberRows(team_id, user_id) <= 1

(***************************************************************************)
(* Task assignments (task.py:196-215, models.py:60-65).                    *)
(***************************************************************************)
\* C17: assign_task makes no check for an existing assignment: whenever the
\* caller and the assignee are members of the task's team it returns 201 and
\* adds one more row, also when the store already holds a row for that
\* (task, user); two rows for one (task, user) are reachable.
C17_AssignTaskAlwaysAdds ==
    \A task \in db.tasks : \A caller \in db.users : \A assignee \in db.users :
        (MemberRow(task.team, caller.id) /\ MemberRow(task.team, assignee.id)) =>
            LET res == assign_task(db, caller.username, task.id, assignee.id)
                row == [task_id |-> task.id, user_id |-> assignee.id]
            IN  /\ res.resp.status = 201
                /\ res.db = [db EXCEPT !.task_assignments = BagPut(@, row)]
                /\ CopiesIn(row, res.db.task_assignments) =
                       CopiesIn(row, db.task_assignments) + 1

\* assign_task has just returned 201 and the store holds two rows for one (task, user).
C17_Witness ==
    /\ last.op = "assign_task" /\ last.status = 201 /\ last.changed
    /\ \E row \in BagToSet(db.task_assignments) : CopiesIn(row, db.task_assignments) = 2

(***************************************************************************)
(* Duplicate rows of the note relations (note.py:517-525, 572-580).        *)
(***************************************************************************)
\* C18: duplicate rows are possible in both note relations.  Nothing at the
\* commit of assign_note_to_user or link_note_to_task refuses a row that is
\* already there: a request that passed its check inserts its row whatever
\* was committed since, so interleaved requests for one (note, user) or one
\* (note, task) leave two rows.
C18_CommitNeverRefusesDuplicate ==
    \A r \in inflight :
        NotesWithId(db, r.req.row.note_id) # {} =>
            LET res == insert_row(db, r.req.table, r.req.row) IN
            /\ res.resp.status = 200
            /\ CopiesIn(r.req.row, res.db[r.req.table]) =
                   CopiesIn(r.req.row, db[r.req.table]) + 1

\* The store holds two share rows for one (note, user) and two link rows for
\* one (note, task), the last of them committed by the request just served.
C18_Witness ==
    /\ last.op \in {"assign_note_to_user", "link_note_to_task"}
    /\ last.status = 200 /\ last.changed
    /\ \E row \in BagToSet(db.user_notes) : CopiesIn(row, db.user_notes) = 2
    /\ \E row \in BagToSet(db.task_notes) : CopiesIn(row, db.task_notes) = 2

(***************************************************************************)
(* The life of a token (login.py:73-84): issued, valid, expired.           *)
(***************************************************************************)
\* C19: whether a token verifies depends on the token and the clock alone:
\* whatever requests changed the store since it was issued, it verifies at
\* every instant before its expiry, and from its expiry on it is answered
\* 'Token has expired' at every later instant; there is no revocation.
C19_ValidUntilExpiryOnly ==
    /\ \A tk \in tokens : \A h \in HeadersOf(tk) :
           LET v == verify(h, now) IN
           /\ now < tk.payload.exp =>
                  v.resp.status = 0 /\ v.current_user = tk.payload.user
           /\ now >= tk.payload.exp =>
                  \A t \in now..(MaxTime + TokenHours) :
                      verify(h, t).resp = Response(401, "Token has expired")
    /\ \A tk \in Presented :
           (last.op = "protected" /\ tk \in tokens) =>
               last.status = IF last.at < tk.payload.exp THEN 200 ELSE 401

\* A token of admin's was accepted, later than its issue, in a store where
\* alice has registered and admin has left the team.
C19_Witness ==
    \E tk \in Presented :
        /\ last.op = "protected" /\ last.status = 200
        /\ tk \in tokens /\ tk.payload.user = "admin"
        /\ last.at > tk.payload.exp - TokenHours
        /\ UsersNamed(db, "alice") # {}
        /\ db.team_members = EmptyBag

(***************************************************************************)
(* Authorization after a removal (team.py:425-443, 276-278).               *)
(***************************************************************************)
\* C20: the membership check is made against the current store on every
\* request: once remove_member(team, u) has returned 200, every
\* update_team, delete_team, add_member, remove_member and create_task
\* request by u on that team, with the fields the handler requires, returns
\* 403 (until u is added again).
C20_RemovedMeansRefused ==
    [][ \A team \in db.teams : \A user \in db.users :
            ( /\ last'.op = "remove_member" /\ last'.status = 200
              /\ MemberRows(team.id, user.id)' < MemberRows(team.id, user.id) )
            => (\A r \in TeamResponses(team, user) : r.valid => r.res.resp.status = 403)'
      ]_vars

(***************************************************************************)
(* A membership revoked between check and write (task.py:160-171,          *)
(* team.py:378-395, 433-442).                                              *)
(***************************************************************************)
\* The caller of a request in flight holds no membership row of its team now.
Revoked(req) ==
    \A u \in UsersNamed(db, req.x_user) : ~MemberRow(req.team_id, u.id)

\* C21: a membership revoked between a handler's check and its write is not
\* detected: the write of a create_task or add_member request that passed its
\* checks commits whatever remove_member committed since, so the store comes
\* to hold a task or a membership row written for a user who was no longer a
\* member when it was committed.
C21_RevocationNotDetected ==
    \A r \in inflight :
        LET res == write_row(db, r.req) IN
        /\ res.resp.status = IF r.req.op = "create_task" THEN 201 ELSE 200
        /\ r.req.op = "create_task" =>
               /\ res.db.tasks = db.tasks \cup {[id |-> db.task_seq, team |-> r.req.team_id]}
               /\ Cardinality(res.db.tasks) = Cardinality(db.tasks) + 1
        /\ r.req.op = "add_member" =>
               LET row == new_team_member(r.req.team_id, r.req.data) IN
               CopiesIn(row, res.db.team_members) = CopiesIn(row, db.team_members) + 1

\* create_task has just committed a task of a team in which its caller holds
\* no membership row any more.
C21_Witness ==
    /\ last.op = "create_task" /\ last.status = 201 /\ last.changed
    /\ \E task \in db.tasks : \E user \in UsersNamed(db, last.x_user) :
           /\ task.id = db.task_seq - 1
           /\ ~MemberRow(task.team, user.id)

\* add_member has just committed a row written by a caller who is a member
\* of no team any more.
C21_WitnessMember ==
    /\ last.op = "add_member" /\ last.status = 200 /\ last.changed
    /\ \E user \in UsersNamed(db, last.x_user) :
           \A team \in db.teams : ~MemberRow(team.id, user.id)

\* A request in flight whose caller has been removed since its check.
C21_WitnessRevokedInFlight ==
    \E r \in inflight : Revoked(r.req)

(***************************************************************************)
(* Who may assign a task, and to whom (task.py:196-215).                   *)
(***************************************************************************)
\* C22: assign_task authorizes against the membership of the team the task
\* belongs to, as it is when the request is served: for an existing task and
\* a registered caller it answers 201 and adds the row exactly when the
\* caller and the assignee both hold a membership row of that team, and 403
\* with the assignments unchanged otherwise; no request adds a row in any
\* other case.
C22_AssignNeedsBothMembers ==
    /\ \A task \in db.tasks : \A caller \in db.users : \A user_id \in UserIds \cup {NoSuchId} :
           LET res == assign_task(db, caller.username, task.id, user_id) IN
           IF MemberRow(task.team, caller.id) /\ MemberRow(task.team, user_id)
           THEN /\ res.resp.status = 201
                /\ res.db = [db EXCEPT !.task_assignments =
                                BagPut(@, [task_id |-> task.id, user_id |-> user_id])]
           ELSE res.resp.status = 403 /\ res.db = db
    /\ \A x_user \in StoreXUsers : \A task_id \in 1..MaxTasks \cup {NoSuchId} :
       \A user_id \in UserIds \cup {NoSuchId} :
           LET res == assign_task(db, x_user, task_id, user_id) IN
           (res.resp.status = 201 \/ res.db # db) =>
               \E task \in TasksWithId(db, task_id) : \E caller \in UsersNamed(db, x_user) :
                   MemberRow(task.team, caller.id) /\ MemberRow(task.team, user_id)

\* A member of the task's team was refused: the assignee is not a member of
\* it, while the store still holds an assignment made when a user who has
\* left the team since was one.
C22_Witness ==
    /\ last.op = "assign_task" /\ last.status = 403 /\ ~last.changed
    /\ \E task \in db.tasks : \E caller \in UsersNamed(db, last.x_user) :
           /\ MemberRow(task.team, caller.id)
           /\ \E row \in BagToSet(db.task_assignments) :
                  row.task_id = task.id /\ ~MemberRow(task.team, row.user_id)

\* A member who is not the owner has just assigned the task to the owner.
C22_WitnessAssigned ==
    /\ last.op = "assign_task" /\ last.status = 201 /\ last.changed
    /\ last.x_user = "alice"
    /\ [task_id |-> 1, user_id |-> Admin.id] \in BagToSet(db.task_assignments)

(***************************************************************************)
(* Team names are unique (team.py:205-209, 276-288, models.py:23).         *)
(***************************************************************************)
\* C23 (as stated): a request that would give two teams the same name,
\* create_team with the name of an existing team or update_team by a member
\* renaming the team to the name of another, is answered 400 or 409 and
\* leaves the store unchanged.
C23_DuplicateNameIsConflict ==
    /\ \A team \in db.teams : \A x_user \in StoreXUsers :
           LET res == create_team(db, x_user, [name |-> team.name]) IN
           res.resp.status \in {400, 409} /\ res.db = db
    /\ \A team \in db.teams : \A other \in db.teams \ {team} : \A user \in db.users :
           MemberRow(team.id, user.id) =>
               LET res == update_team(db, user.username, team.id,
                                      [has |-> TRUE, name |-> other.name]) IN
               res.resp.status \in {400, 409} /\ res.db = db

(***************************************************************************)
(* Rows that point at a team (team.py:312-326, models.py:33,52).           *)
(***************************************************************************)
\* Every membership row and every task of the store d refers to a team of d.
TeamRefsExist(d) ==
    /\ \A r \in BagToSet(d.team_members) : TeamsWithId(d, r.team_id) # {}
    /\ \A t \in d.tasks : TeamsWithId(d, t.team) # {}

\* No membership row and no task of the store d points at team_id.
NothingPointsAt(d, team_id) ==
    /\ \A r \in BagToSet(d.team_members) : r.team_id # team_id
    /\ \A t \in d.tasks : t.team # team_id

NoteRefsExist(d) ==
    /\ \A r \in BagToSet(d.user_notes) : NotesWithId(d, r.note_id) # {}
    /\ \A r \in BagToSet(d.task_notes) : NotesWithId(d, r.note_id) # {}

\* No share row and no link row of the store d points at note_id.
NoRowsOfNote(d, note_id) ==
    /\ \A r \in BagToSet(d.user_notes) : r.note_id # note_id
    /\ \A r \in BagToSet(d.task_notes) : r.note_id # note_id

\* C25: delete_note by the creator answers 200 and removes the note together
\* with every share row and every link row of it; in every reachable store,
\* whatever share and link requests are still in flight, every share row and
\* every link row refers to a note that exists.
C25_NoteRefsExist ==
    /\ NoteRefsExist(db)
    /\ \A note \in db.notes : \A user \in db.users :
           user.id = note.created_by =>
               LET res == delete_note(db, user.username, note.id) IN
               /\ res.resp.status = 200
               /\ NotesWithId(res.db, note.id) = {}
               /\ NoRowsOfNote(res.db, note.id)
               /\ NoteRefsExist(res.db)
    /\ \A r \in inflight : NoteRefsExist(insert_row(db, r.req.table, r.req.row).db)
    /\ (last.op = "delete_note" /\ last.status = 200) =>
           \A note_id \in NoteIds : NotesWithId(db, note_id) = {} => NoRowsOfNote(db, note_id)

\* The creator has just deleted the note while a request that had passed its
\* checks was waiting to insert a row for it.
C25_Witness ==
    /\ last.op = "delete_note" /\ last.status = 200 /\ last.changed
    /\ db.notes = {}
    /\ \E r \in inflight : NotesWithId(db, r.req.row.note_id) = {}

\* A store in which the note has a share row and a link row, and its creator
\* may delete it.
C25_WitnessRows ==
    \E note \in db.notes :
        /\ \E r \in BagToSet(db.user_notes) : r.note_id = note.id
        /\ \E r \in BagToSet(db.task_notes) : r.note_id = note.id
        /\ \E user \in db.users : user.id = note.created_by

(***************************************************************************)
(* Refused requests (every return of 400, 403 or 404 in team.py, task.py   *)
(* and note.py precedes the handler's first write).                        *)
(***************************************************************************)
Refusals == {400, 403, 404}

\* The answers of the team service to every request x_user can send.
TeamServiceAnswers(x_user) ==
    { create_team(db, x_user, data) : data \in [name : TeamNames \cup {""}] }
    \cup UNION { { update_team(db, x_user, team_id, data) : data \in UpdateTeamBodies }
                 \cup { delete_team(db, x_user, team_id) }
                 \cup { add_member(db, x_user, team_id, data) : data \in AddMemberBodies }
                 \cup UNION { remove_member(db, x_user, team_id, member_id)
                                : member_id \in UserIds \cup {NoSuchId} }
                 : team_id \in TeamIds \cup {NoSuchId} }

\* The answers of the task service.
TaskServiceAnswers(x_user) ==
    { create_task(db, x_user, data) : data \in CreateTaskBodies }
    \cup { assign_task(db, x_user, task_id, user_id)
             : task_id \in TaskIds, user_id \in UserIds \cup {NoSuchId} }

\* The answers of the note service to its state-changing requests.
NoteServiceAnswers(x_user) ==
    { create_note(db, x_user, data) : data \in [content : NoteContents \cup {""}] }
    \cup UNION { { update_note(db, x_user, note_id, data) : data \in UpdateNoteBodies }
                 \cup { delete_note(db, x_user, note_id) }
                 \cup { assign_note_to_user(db, x_user, note_id, a) : a \in UserIds \cup {NoSuchId} }
                 \cup { link_note_to_task(db, x_user, note_id, task_id) : task_id \in TaskIds }
                 \cup { unlink_note_from_task(db, x_user, note_id, task_id) : task_id \in TaskIds }
                 : note_id \in NoteIds }

\* C26: a team, task or note request that is answered 400, 403 or 404 leaves
\* every relation of the store (users, teams, memberships, tasks,
\* assignments, notes, shares, links) exactly as it was.
C26_RefusalChangesNothing ==
    /\ \A x_user \in StoreXUsers \cup {"eve"} :
           \A res \in TeamServiceAnswers(x_user) \cup TaskServiceAnswers(x_user)
                      \cup NoteServiceAnswers(x_user) :
               res.resp.status \in Refusals => res.db = db
    /\ (last.op \in StoreOps /\ last.status \in Refusals) => ~last.changed

\* alice, removed from the team since she was shared the note, has just been
\* refused (403) and nothing changed.
C26_Witness ==
    /\ last.op \in StoreOps /\ last.status = 403 /\ ~last.changed
    /\ last.x_user = "alice"
    /\ ~MemberRow(1, Alice.id)
    /\ ShareRow(1, Alice.id)

\* A request was refused with 400, and one with 404, in a store that earlier
\* requests changed.
C26_WitnessInvalid ==
    /\ last.op \in StoreOps /\ last.status = 400 /\ ~last.changed
    /\ db.user_notes # EmptyBag

C26_WitnessNotFound ==
    /\ last.op \in StoreOps /\ last.status = 404 /\ ~last.changed
    /\ db.notes = {}

(***************************************************************************)
(* A team without members (team.py:276-278, 320-322, 378-380, 433-435,     *)
(* task.py:160-161).                                                       *)
(***************************************************************************)
\* The team has no membership row.
Memberless(team_id) == \A r \in BagToSet(db.team_members) : r.team_id # team_id

\* The answers to every request on the team that any caller can send.
TeamAnswers(team_id) ==
    UNION { { update_team(db, x_user, team_id, data) : data \in UpdateTeamBodies }
            \cup { delete_team(db, x_user, team_id) }
            \cup { add_member(db, x_user, team_id, data) : data \in AddMemberBodies }
            \cup UNION { remove_member(db, x_user, team_id, member_id) : member_id \in UserIds }
            \cup { create_task(db, x_user, data)
                     : data \in { b \in CreateTaskBodies : b.team_id = team_id } }
            : x_user \in StoreXUsers }

\* What the store d holds of a team: its row, its membership rows, its tasks.
TeamState(d, team_id) ==
    << TeamsWithId(d, team_id),
       { <<r, d.team_members[r]>> : r \in { m \in BagToSet(d.team_members) : m.team_id = team_id } },
       { t \in d.tasks : t.team = team_id } >>

C27_WitnessLateCommit ==
    /\ last.op = "add_member" /\ last.status = 200 /\ last.changed
    /\ \E user \in UsersNamed(db, last.x_user) :
           \A team \in db.teams : ~MemberRow(team.id, user.id)
    /\ \E team \in db.teams :
           Cardinality({ r \in BagToSet(db.team_members) : r.team_id = team.id }) = 1

(***************************************************************************)
(* The creator of a note (note.py:421-432, 517-525, 572-580, 625-630).     *)
(***************************************************************************)
\* Every note of the store `after` that `before` holds too has the creator
\* it had.
SameCreators(before, after) ==
    \A m \in before.notes : \A n \in after.notes : m.id = n.id => m.created_by = n.created_by

\* C28: a note's creator never changes.  No request of the team, task or note
\* service modifies created_by of an existing note; update_note changes
\* nothing but the content of the note it names; assign_note_to_user,
\* link_note_to_task and unlink_note_from_task leave the notes as they are.
C28_CreatorNeverChanges ==
    \A x_user \in StoreXUsers :
        /\ \A res \in TeamServiceAnswers(x_user) \cup TaskServiceAnswers(x_user)
                      \cup NoteServiceAnswers(x_user) :
               SameCreators(db, res.db)
        /\ \A note_id \in NoteIds :
               /\ \A data \in UpdateNoteBodies :
                      LET res == update_note(db, x_user, note_id, data) IN
                      /\ res.db = [db EXCEPT !.notes = res.db.notes]
                      /\ { [id |-> n.id, created_by |-> n.created_by] : n \in res.db.notes }
                             = { [id |-> n.id, created_by |-> n.created_by] : n \in db.notes }
                      /\ \A n \in res.db.notes : n.id # note_id => n \in db.notes
               /\ \A a \in UserIds \cup {NoSuchId} :
                      assign_note_to_user(db, x_user, note_id, a).db.notes = db.notes
               /\ \A task_id \in TaskIds :
                      /\ link_note_to_task(db, x_user, note_id, task_id).db.notes = db.notes
                      /\ unlink_note_from_task(db, x_user, note_id, task_id).db.notes = db.notes

\* bob's note, shared and linked since, has just been rewritten by bob: its
\* content is new and bob is still its creator.
C28_Witness ==
    /\ last.op = "update_note" /\ last.status = 200 /\ last.changed
    /\ last.x_user = "bob"
    /\ db.notes = {[id |-> 1, content |-> "c2", created_by |-> Bob.id]}
    /\ db.user_notes # EmptyBag
    /\ db.task_notes # EmptyBag

(***************************************************************************)
(* Sharing and linking twice, one request after another (note.py:517-518,  *)
(* 572-573).                                                               *)
(***************************************************************************)
\* C29: with requests served one after another, assign_note_to_user for a
\* (note, user) pair that has a share row and link_note_to_task for a
\* (note, task) pair that has a link row add no row, and answer 400 to a
\* caller who passes the handler's permission check; no store reached this
\* way holds two share rows of one pair or two link rows of one pair.
C29_NoDuplicateInSequence ==
    /\ \A row \in BagToSet(db.user_notes) : CopiesIn(row, db.user_notes) = 1
    /\ \A row \in BagToSet(db.task_notes) : CopiesIn(row, db.task_notes) = 1
    /\ \A row \in BagToSet(db.user_notes) : \A x_user \in StoreXUsers :
           LET res == assign_note_to_user(db, x_user, row.note_id, row.user_id) IN
           /\ res.db = db
           /\ (\E u \in UsersNamed(db, x_user) : \E n \in NotesWithId(db, row.note_id) :
                   n.created_by = u.id) => res.resp.status = 400
    /\ \A row \in BagToSet(db.task_notes) : \A x_user \in StoreXUsers :
           LET res == link_note_to_task(db, x_user, row.note_id, row.task_id) IN
           /\ res.db = db
           /\ (\E u \in UsersNamed(db, x_user) : \E t \in TasksWithId(db, row.task_id) :
                   MemberRow(t.team, u.id)) => res.resp.status = 400

\* A second assign_note_to_user for a pair already shared has just been
\* answered 400, in a store where the note is linked as well.
C29_Witness ==
    /\ last.op = "assign_note_to_user" /\ last.status = 400 /\ ~last.changed
    /\ db.user_notes # EmptyBag
    /\ db.task_notes # EmptyBag

\* A second link_note_to_task for a pair already linked has just been answered 400.
C29_WitnessLink ==
    /\ last.op = "link_note_to_task" /\ last.status = 400 /\ ~last.changed
    /\ db.task_notes # EmptyBag

(***************************************************************************)
(* Who may link a note to a task (note.py:565-570, 618-623).               *)
(***************************************************************************)
\* C30: link_note_to_task and unlink_note_from_task serve only a member of
\* the team that owns the task: for an existing note and task, a registered
\* caller without a membership row of that team gets 403 and the store is
\* unchanged, also when the caller created the note; neither handler changes
\* the links for a caller who is not such a member.
C30_LinkNeedsTeamMember ==
    /\ \A note \in db.notes : \A task \in db.tasks : \A user \in db.users :
           ~MemberRow(task.team, user.id) =>
               \A res \in { link_note_to_task(db, user.username, note.id, task.id),
                            unlink_note_from_task(db, user.username, note.id, task.id) } :
                   res.resp.status = 403 /\ res.db = db
    /\ \A x_user \in StoreXUsers : \A note_id \in NoteIds : \A task_id \in TaskIds :
           \A res \in { link_note_to_task(db, x_user, note_id, task_id),
                        unlink_note_from_task(db, x_user, note_id, task_id) } :
               (res.resp.status = 200 \/ res.db # db) =>
                   \E user \in UsersNamed(db, x_user) : \E task \in TasksWithId(db, task_id) :
                       MemberRow(task.team, user.id)

\* bob, who wrote the note and is not a member of the task's team, has just
\* been refused; the note is linked to the task, by a member.
C30_Witness ==
    /\ last.op \in {"link_note_to_task", "unlink_note_from_task"}
    /\ last.status = 403 /\ ~last.changed
    /\ last.x_user = "bob"
    /\ \E note \in db.notes : \E task \in db.tasks :
           /\ note.created_by = Bob.id
           /\ ~MemberRow(task.team, Bob.id)
           /\ has_task_note(db, note.id, task.id)

====
